---- MODULE Spec2Model ----
(***************************************************************************)
(* Model of the TrimUI Brick power-off hook kernel module                  *)
(* (src/src/poweroff_hook.c): module init, the monitor kthread that polls  *)
(* /tmp/poweroff and runs the shutdown sequence, and module exit.          *)
(*                                                                         *)
(* Program counters are source line numbers of src/src/poweroff_hook.c:    *)
(* pc = n means "the monitor thread is about to execute the statement at   *)
(* line n".  Fixed-duration msleep() calls are folded into the statement   *)
(* that precedes them.  The I2C bus, the usermode helpers, the VFS and     *)
(* kernel_power_off() are the environment: every outcome the code can      *)
(* observe from them is chosen nondeterministically.  Physical loss of     *)
(* power after a successful write of register 0x27 is not modelled (the    *)
(* bus behaves as a test double); kernel_power_off() may or may not        *)
(* return.                                                                 *)
(***************************************************************************)
EXTENDS Integers, Sequences, FiniteSets, TLC

VARIABLES
    power,               \* "on" | "off": the machine (off after kernel_power_off succeeds)
    sigFile,             \* state of /tmp/poweroff
    sdcard,              \* state of /mnt/SDCARD
    i2c_adapter,         \* static struct i2c_adapter *i2c_adapter
    monitor_thread,      \* static struct task_struct *monitor_thread
    should_stop,         \* static bool should_stop
    kthread_stop_flag,   \* KTHREAD_SHOULD_STOP, set by kthread_stop()
    sd_logging_enabled,  \* static bool sd_logging_enabled
    check_count,         \* static int check_count (monitor_thread_fn)
    ipc,                 \* position of the insmod context in poweroff_hook_init
    xpc,                 \* position of the rmmod context in poweroff_hook_exit
    pc,                  \* position of the monitor thread
    retry,               \* local of unmount_filesystems
    i,                   \* local of execute_axp2202_poweroff
    ret,                 \* local "ret" (unmount_filesystems / execute_axp2202_poweroff)
    filp_ok,             \* did the last diagnostic filp_open (write_log / write_debug_marker) succeed
    events,              \* history: everything the module did, in order
    visited              \* history: orchestrator states entered, in order

vars == <<power, sigFile, sdcard, i2c_adapter, monitor_thread, should_stop,
          kthread_stop_flag, sd_logging_enabled, check_count, ipc, xpc, pc,
          retry, i, ret, filp_ok, events, visited>>

envVars == <<power, sigFile, sdcard>>
modVars == <<i2c_adapter, monitor_thread, should_stop, kthread_stop_flag>>
locVars == <<retry, i, ret>>

(***************************************************************************)
(* Bounds                                                                  *)
(***************************************************************************)
\* check_count is an unbounded int in the code; polling stops here.
MaxPolls == 3

(***************************************************************************)
(* Program constants                                                       *)
(***************************************************************************)
RetryLimit_short == 3 - 1
RetryLimit == 3             \* for (retry = 0; retry < 3; retry++)
LastRetrySync == 2           \* if (retry < 2)
MaskFirst == 64              \* 0x40
MaskLast_short == 68 - 1
MaskLast == 68               \* 0x44
StatusFirst == 72            \* 0x48
StatusLast_short == 76 - 1
StatusLast == 76             \* 0x4C
PWROFF_EN == 34              \* 0x22
PWROFF_EN_VALUE == 10        \* 0x0A
SOFT_PWROFF == 39            \* 0x27
SOFT_PWROFF_VALUE == 1       \* 0x01
ENODEV == 19
EIO == 5

\* what i2c_transfer() can return for one message: 1, a short count, an errno
TransferRets == {1, 0, -121}
\* what call_usermodehelper(UMH_WAIT_PROC) can return: 0 or a failure status
HelperRets == {0, 256}

SigStates == {"absent", "stale", "truncated", "fresh"}
\* /mnt/SDCARD: the path does not resolve; it is a plain directory; a volume
\* is mounted on it; a volume is mounted on it and the root of that volume is
\* itself a mount point (another mount stacked on it)
SdStates == {"unresolved", "plain", "mounted", "stacked"}

(***************************************************************************)
(* History records                                                         *)
(***************************************************************************)
Ev(k, a, at, r, v) == [k |-> k, a |-> a, at |-> at, r |-> r, v |-> v]

OfKind(k) == SelectSeq(events, LAMBDA e : e.k = k)
Count(k) == Len(OfKind(k))
Named(k, a) == SelectSeq(events, LAMBDA e : e.k = k /\ e.a = a)
At(k, at) == SelectSeq(events, LAMBDA e : e.k = k /\ e.at = at)
Last(s) == s[Len(s)]
BoolInt(b) == IF b THEN 1 ELSE 0

(***************************************************************************)
(* Pure functions of the module                                            *)
(***************************************************************************)
\* axp2202_write_reg: result for a given adapter and i2c_transfer outcome
axp2202_write_reg_lenient(adapter, t) ==
    IF adapter = "NULL" THEN -ENODEV
    ELSE IF t < 0 THEN t
    ELSE 0
axp2202_write_reg(adapter, t) ==
    IF adapter = "NULL" THEN -ENODEV
    ELSE IF t # 1 THEN (IF t < 0 THEN t ELSE -EIO)
    ELSE 0

\* events appended by one call axp2202_write_reg(reg, value)
WriteRegEvents(adapter, at, reg, value) ==
    <<Ev("write_reg", "axp2202_write_reg", at, reg, value)>> \o
    (IF adapter = "NULL" THEN <<>>
     ELSE <<Ev("i2c_transfer", "i2c_transfer", at, reg, value)>>)

\* is_sdcard_mounted: kern_path() must resolve, then d_mountpoint()
\* d_mountpoint(p.dentry) for the dentry kern_path() arrives at.  The path
\* walk crosses mounts at every component, the last one included, so with a
\* volume mounted on /mnt/SDCARD p.dentry is the root of that volume, not the
\* directory under it; DCACHE_MOUNTED is set on that root only when
\* something is mounted on it in turn.
d_mountpoint(s) == s = "stacked"

is_sdcard_mounted(s) ==
    IF s # "unresolved" THEN d_mountpoint(s) ELSE FALSE

\* filp_open(POWEROFF_SIGNAL_FILE, O_RDONLY, 0) succeeds iff the file exists
SignalPresent_always(f) == TRUE
SignalPresent(f) == f # "absent"

\* filp_open(POWEROFF_SIGNAL_FILE, O_WRONLY | O_TRUNC, 0644): the file is
\* emptied, it is not unlinked
Truncate(f) == IF f = "absent" THEN "absent" ELSE "truncated"

(***************************************************************************)
(* Call sites of write_debug_marker: <<line, stage, next line>>            *)
(***************************************************************************)
MarkerTable == <<
    <<383, "SIGNAL_DETECTED", 396>>,
    <<397, "BEFORE_KILL_PROCESSES", 192>>,
    <<406, "AFTER_KILL_PROCESSES", 409>>,
    <<409, "BEFORE_UNMOUNT", 217>>,
    <<217, "UNMOUNT_SYNC_START", 218>>,
    <<221, "UNMOUNT_SYNC_DONE", 224>>,
    <<224, "UNMOUNT_SWAPOFF_START", 225>>,
    <<227, "UNMOUNT_SWAPOFF_DONE", 230>>,
    <<230, "UNMOUNT_PROFILE_START", 231>>,
    <<233, "UNMOUNT_PROFILE_DONE", 237>>,
    <<237, "UNMOUNT_DISABLE_SD_LOGGING", 238>>,
    <<242, "UNMOUNT_SDCARD_PRE_SYNC", 243>>,
    <<246, "UNMOUNT_SDCARD_PRE_SYNC_DONE", 250>>,
    <<250, "UNMOUNT_SDCARD_START", 251>>,
    <<257, "UNMOUNT_SDCARD_ATTEMPT_", 260>>,
    <<261, "UNMOUNT_SDCARD_FUSER_KILL", 262>>,
    <<271, "UNMOUNT_SDCARD_WAIT_START", 273>>,
    <<273, "UNMOUNT_SDCARD_WAIT_DONE", 275>>,
    <<275, "UNMOUNT_SDCARD_CHECK_START", 276>>,
    <<278, "UNMOUNT_SDCARD_SUCCESS", 294>>,
    <<281, "UNMOUNT_SDCARD_STILL_MOUNTED", 283>>,
    <<286, "UNMOUNT_SDCARD_RETRY_SYNC", 287>>,
    <<294, "UNMOUNT_FINAL_SYNC_START", 295>>,
    <<298, "UNMOUNT_FINAL_SYNC_DONE", 411>>,
    <<411, "AFTER_UNMOUNT", 414>>,
    <<417, "SD_STILL_MOUNTED_EMERGENCY", 421>>,
    <<421, "EMERGENCY_KERNEL_POWEROFF", 422>>,
    <<431, "SD_UNMOUNTED_OK", 435>>,
    <<435, "BEFORE_PMIC_SHUTDOWN", 309>>,
    <<309, "PMIC_SEQUENCE_START", 313>>,
    <<313, "STEP1_MASK_INTERRUPTS", 314>>,
    <<322, "STEP2_CLEAR_IRQ_STATUS", 323>>,
    <<334, "STEP3_SHUTDOWN_SOURCES", 335>>,
    <<341, "STEP4_TRIGGER_POWEROFF", 342>>,
    <<347, "STEP4_COMPLETE", 354>>,
    <<354, "PMIC_SEQUENCE_COMPLETE", 437>>,
    <<437, "AFTER_PMIC_SHUTDOWN", 441>>,
    <<441, "BEFORE_KERNEL_POWEROFF", 442>>,
    <<445, "AFTER_KERNEL_POWEROFF", 447>> >>

MarkerLines == {MarkerTable[n][1] : n \in DOMAIN MarkerTable}
MarkerEntry_returns(l) ==
    IF l = 278 THEN <<278, "UNMOUNT_SDCARD_SUCCESS", 411>>
    ELSE MarkerTable[CHOOSE n \in DOMAIN MarkerTable : MarkerTable[n][1] = l]
MarkerEntry_wrongstep(l) ==
    IF l = 334 THEN <<334, "STEP4_TRIGGER_POWEROFF", 335>>
    ELSE MarkerTable[CHOOSE n \in DOMAIN MarkerTable : MarkerTable[n][1] = l]
MarkerEntry_swapped(l) ==
    IF l = 397 THEN <<397, "BEFORE_UNMOUNT", 192>>
    ELSE IF l = 409 THEN <<409, "BEFORE_KILL_PROCESSES", 217>>
    ELSE MarkerTable[CHOOSE n \in DOMAIN MarkerTable : MarkerTable[n][1] = l]
MarkerEntry(l) == MarkerTable[CHOOSE n \in DOMAIN MarkerTable : MarkerTable[n][1] = l]

\* snprintf(marker_msg, ..., "UNMOUNT_SDCARD_ATTEMPT_%d", retry + 1): the
\* attempt number is kept in the record's v field
MarkerArg(l, r) == IF l = 257 THEN r + 1 ELSE 0

(***************************************************************************)
(* Call sites of call_usermodehelper: <<line, command, next line>>         *)
(***************************************************************************)
HelperTable == <<
    <<192, "killall5 -15", 199>>,
    <<199, "killall5 -9", 406>>,
    <<218, "sync", 221>>,
    <<225, "swapoff -a", 227>>,
    <<231, "umount -f /etc/profile", 233>>,
    <<243, "sync", 246>>,
    <<262, "fuser -km /mnt/SDCARD", 268>>,
    <<268, "umount -f -l /mnt/SDCARD", 271>>,
    <<287, "sync", 291>>,
    <<295, "sync", 298>> >>

HelperLines == {HelperTable[n][1] : n \in DOMAIN HelperTable}
HelperEntry_swapped(l) ==
    IF l = 192 THEN <<192, "killall5 -9", 199>>
    ELSE IF l = 199 THEN <<199, "killall5 -15", 406>>
    ELSE HelperTable[CHOOSE n \in DOMAIN HelperTable : HelperTable[n][1] = l]
HelperEntry(l) == HelperTable[CHOOSE n \in DOMAIN HelperTable : HelperTable[n][1] = l]

\* the msleep() that directly follows the helper called at line l
HelperSleep(l) ==
    CASE l = 192 -> 500 [] l = 199 -> 200 [] l = 218 -> 100 [] l = 243 -> 500
      [] l = 262 -> 200 [] l = 287 -> 300 [] l = 295 -> 200 [] OTHER -> 0
HelperWait(l) ==
    IF HelperSleep(l) > 0 THEN <<Ev("msleep", "msleep", l, 0, HelperSleep(l))>> ELSE <<>>

\* kill_all_processes discards the helper's return value, unmount_filesystems
\* stores it in ret
HelperRet(l, old, r) == IF l \in {192, 199} THEN old ELSE r

\* what a helper can do to /mnt/SDCARD: only the umount of it can detach it
HelperEffect(cmd, s) ==
    IF cmd = "umount -f -l /mnt/SDCARD" /\ s = "mounted" THEN {"mounted", "plain"}
    ELSE IF cmd = "umount -f -l /mnt/SDCARD" /\ s = "stacked" THEN {"stacked", "mounted"}
    ELSE {s}

(***************************************************************************)
(* Orchestrator state of the monitor thread, by position                   *)
(***************************************************************************)
OrchestratorState(l) ==
    CASE l \in {0, 370, 379, 453} -> "Idle"
      [] l \in {383, 396, 397} -> "Triggered"
      [] l \in {192, 199, 406} -> "ReapingProcesses"
      [] l \in {409, 411, 414} \/ (l >= 217 /\ l <= 298) -> "Unwinding"
      [] l \in {417, 421} -> "EmergencyPoweroff"
      [] l \in {431, 435, 437} \/ (l >= 309 /\ l <= 354) -> "Sequencing"
      [] l \in {422, 426, 441, 442, 445, 447} -> "Terminal"
      [] l = 457 -> "Exited"

Visit(l) ==
    IF OrchestratorState(l) # Last(visited)
    THEN Append(visited, OrchestratorState(l))
    ELSE visited

\* while (1) { cpu_relax(); } at line l: the thread never leaves l
Halt_fallthrough(l) == 453
Halt_returns(l) == 457
Halt(l) == l

\* if (is_sdcard_mounted()) { emergency } else { SD_UNMOUNTED_OK }
VerifyTarget_fallthrough(m) == 431
VerifyTarget_abort(m) == IF m THEN 457 ELSE 431
VerifyTarget(m) == IF m THEN 417 ELSE 431

\* if (!is_sdcard_mounted()) { SUCCESS; break; } STILL_MOUNTED
LoopProbeTarget_nobreak(m) == 281
LoopProbeTarget_inverted(m) == IF m THEN 278 ELSE 281
LoopProbeTarget(m) == IF m THEN 281 ELSE 278

(***************************************************************************)
(* Initial state: the module is not loaded; /tmp/poweroff may be left over *)
(* from a previous boot; the SD card is mounted by the boot scripts.       *)
(***************************************************************************)
Init ==
    /\ power = "on"
    /\ sigFile \in {"absent", "stale"}
    /\ sdcard = "mounted"
    /\ i2c_adapter = "NULL"
    /\ monitor_thread = "NULL"
    /\ should_stop = FALSE
    /\ kthread_stop_flag = FALSE
    /\ sd_logging_enabled = TRUE
    /\ check_count = 0
    /\ ipc = 478
    /\ xpc = 0
    /\ pc = 0
    /\ retry = 0
    /\ i = 0
    /\ ret = 0
    /\ filp_ok = TRUE
    /\ events = <<>>
    /\ visited = <<"Idle">>


(***************************************************************************)
(* Diagnostic recorder                                                     *)
(***************************************************************************)
\* write_log(message): no file operation once SD logging is disabled,
\* otherwise one filp_open(LOG_PATH) and, if it succeeds, one appended write
write_log(enabled, at) ==
    IF ~enabled THEN <<>>
    ELSE <<Ev("sdlog", "filp_open", at, 0, 0)>>

\* outcome of the open in write_log: not attempted when logging is disabled
write_log_ok(enabled, old, openOk) == IF ~enabled THEN old ELSE openOk

\* write_debug_marker(stage) at one of its call sites in the monitor thread:
\* the file write is best effort, the printk always happens
write_debug_marker_aborts ==
    /\ power = "on"
    /\ pc \in MarkerLines
    /\ \E openOk \in BOOLEAN :
         /\ filp_ok' = openOk
         /\ pc' = IF ~openOk THEN 453
                  ELSE IF MarkerEntry(pc)[3] = 447 THEN Halt(447) ELSE MarkerEntry(pc)[3]
    /\ events' = Append(events,
                    Ev("marker", MarkerEntry(pc)[2], pc, 0, MarkerArg(pc, retry)))
    /\ visited' = Visit(pc')
    /\ UNCHANGED <<envVars, modVars, locVars, sd_logging_enabled, check_count, ipc, xpc>>

write_debug_marker ==
    /\ power = "on"
    /\ pc \in MarkerLines
    /\ \E openOk \in BOOLEAN : filp_ok' = openOk
    /\ events' = Append(events,
                    Ev("marker", MarkerEntry(pc)[2], pc, 0, MarkerArg(pc, retry)))
    /\ pc' = IF MarkerEntry(pc)[3] = 447 THEN Halt(447) ELSE MarkerEntry(pc)[3]
    /\ visited' = Visit(pc')
    /\ UNCHANGED <<envVars, modVars, locVars, sd_logging_enabled, check_count, ipc, xpc>>

(***************************************************************************)
(* poweroff_hook_init                                                      *)
(***************************************************************************)
\* i2c_adapter = i2c_get_adapter(I2C_BUS_NUMBER); if (!i2c_adapter) return -ENODEV;
InitGetAdapter_touches27 ==
    /\ power = "on"
    /\ ipc = 478
    /\ \E got \in BOOLEAN :
         /\ i2c_adapter' = IF got THEN "adapter" ELSE "NULL"
         /\ ipc' = IF got THEN 496 ELSE 481
         /\ events' = IF got THEN events \o WriteRegEvents("adapter", 486, SOFT_PWROFF, 0)
                      ELSE events
    /\ UNCHANGED <<envVars, monitor_thread, should_stop, kthread_stop_flag,
                   sd_logging_enabled, check_count, xpc, pc, locVars, filp_ok,
                   visited>>

InitGetAdapter ==
    /\ power = "on"
    /\ ipc = 478
    /\ \E got \in BOOLEAN :
         /\ i2c_adapter' = IF got THEN "adapter" ELSE "NULL"
         /\ ipc' = IF got THEN 496 ELSE 481
    /\ UNCHANGED <<envVars, monitor_thread, should_stop, kthread_stop_flag,
                   sd_logging_enabled, check_count, xpc, pc, locVars, filp_ok,
                   events, visited>>

\* "Remove old signal file if it exists": open O_RDONLY, then open O_TRUNC
InitClearStale ==
    /\ power = "on"
    /\ ipc = 496
    /\ \E truncOk \in BOOLEAN :
         sigFile' = IF SignalPresent(sigFile) /\ truncOk THEN Truncate(sigFile)
                    ELSE sigFile
    /\ events' = IF SignalPresent(sigFile)
                 THEN Append(events, Ev("stale", sigFile, 496, 0, 0))
                 ELSE events
    /\ ipc' = 523
    /\ UNCHANGED <<power, sdcard, modVars, sd_logging_enabled, check_count, xpc,
                   pc, locVars, filp_ok, visited>>

\* write_log(log_msg) of the load banner
InitWriteLog ==
    /\ power = "on"
    /\ ipc = 523
    /\ \E openOk \in BOOLEAN : filp_ok' = write_log_ok(sd_logging_enabled, filp_ok, openOk)
    /\ events' = events \o write_log(sd_logging_enabled, 523)
    /\ ipc' = 539
    /\ UNCHANGED <<envVars, modVars, sd_logging_enabled, check_count, xpc, pc,
                   locVars, visited>>

\* append /root/poweroff_hook.log to LOG_PATH, then truncate the source: the
\* copy happens only if both opens succeed; it bypasses write_log
InitAppendLog ==
    /\ power = "on"
    /\ ipc = 539
    /\ \E srcOk \in BOOLEAN, dstOk \in BOOLEAN : filp_ok' = (srcOk /\ dstOk)
    /\ ipc' = 573
    /\ UNCHANGED <<envVars, modVars, sd_logging_enabled, check_count, xpc, pc,
                   locVars, events, visited>>

\* monitor_thread = kthread_run(monitor_thread_fn, ...); on error the adapter
\* is released and init fails
InitStartThread ==
    /\ power = "on"
    /\ ipc = 573
    /\ \E started \in BOOLEAN :
         /\ monitor_thread' = IF started THEN "task" ELSE "ERR"
         /\ i2c_adapter' = IF started THEN i2c_adapter ELSE "NULL"
         /\ pc' = IF started THEN 370 ELSE pc
         /\ ipc' = IF started THEN 584 ELSE 578
    /\ UNCHANGED <<envVars, should_stop, kthread_stop_flag, sd_logging_enabled,
                   check_count, xpc, locVars, filp_ok, events, visited>>

(***************************************************************************)
(* poweroff_hook_exit (rmmod of a loaded module)                           *)
(***************************************************************************)
\* if (monitor_thread) { should_stop = true; ...
ExitStop ==
    /\ power = "on"
    /\ ipc = 584
    /\ xpc = 0
    /\ should_stop' = IF monitor_thread # "NULL" THEN TRUE ELSE should_stop
    /\ xpc' = IF monitor_thread # "NULL" THEN 597 ELSE 602
    /\ UNCHANGED <<envVars, i2c_adapter, monitor_thread, kthread_stop_flag,
                   sd_logging_enabled, check_count, ipc, pc, locVars, filp_ok,
                   events, visited>>

\* the rmmod context after a kernel oops: it never runs again
Oops == 0 - 1

\* kthread_stop(k) takes its reference on k only when it is called.  If the
\* thread function has already returned (it saw should_stop, which line 596
\* sets before the call), the task has exited and its task_struct may have
\* been freed: kthread_stop then uses freed memory, which either goes
\* unnoticed (the call returns the exit code) or brings the caller down.
KthreadStopTarget(exited, freed) == IF exited /\ freed THEN Oops ELSE 598

\* kthread_stop(monitor_thread): sets the should-stop bit, then waits
ExitKthreadStop ==
    /\ power = "on"
    /\ xpc = 597
    /\ kthread_stop_flag' = TRUE
    /\ \E freed \in BOOLEAN : xpc' = KthreadStopTarget(pc = 457, freed)
    /\ UNCHANGED <<envVars, i2c_adapter, monitor_thread, should_stop,
                   sd_logging_enabled, check_count, ipc, pc, locVars, filp_ok,
                   events, visited>>

\* kthread_stop returns once the thread function has returned
ExitJoin_nowait ==
    /\ power = "on"
    /\ xpc = 598
    /\ monitor_thread' = "NULL"
    /\ xpc' = 602
    /\ UNCHANGED <<envVars, i2c_adapter, should_stop, kthread_stop_flag,
                   sd_logging_enabled, check_count, ipc, pc, locVars, filp_ok,
                   events, visited>>

ExitJoin ==
    /\ power = "on"
    /\ xpc = 598
    /\ pc = 457
    /\ monitor_thread' = "NULL"
    /\ xpc' = 602
    /\ UNCHANGED <<envVars, i2c_adapter, should_stop, kthread_stop_flag,
                   sd_logging_enabled, check_count, ipc, pc, locVars, filp_ok,
                   events, visited>>

\* if (i2c_adapter) { i2c_put_adapter(i2c_adapter); i2c_adapter = NULL; }
ExitRelease ==
    /\ power = "on"
    /\ xpc = 602
    /\ i2c_adapter' = "NULL"
    /\ xpc' = 608
    /\ UNCHANGED <<envVars, monitor_thread, should_stop, kthread_stop_flag,
                   sd_logging_enabled, check_count, ipc, pc, locVars, filp_ok,
                   events, visited>>

(***************************************************************************)
(* Environment                                                             *)
(***************************************************************************)
\* NextUI creates /tmp/poweroff (a request made after init's stale check)
CreateRequest ==
    /\ power = "on"
    /\ ipc \notin {478, 496}
    /\ sigFile # "fresh"
    /\ sigFile' = "fresh"
    /\ UNCHANGED <<power, sdcard, modVars, sd_logging_enabled, check_count, ipc,
                   xpc, pc, locVars, filp_ok, events, visited>>

\* anything outside the module changes what /mnt/SDCARD is (a lazy unmount
\* completing, a remount, the directory disappearing)
EnvMountChange ==
    /\ power = "on"
    /\ \E s \in SdStates \ {sdcard} : sdcard' = s
    /\ UNCHANGED <<power, sigFile, modVars, sd_logging_enabled, check_count, ipc,
                   xpc, pc, locVars, filp_ok, events, visited>>

(***************************************************************************)
(* monitor_thread_fn: the polling loop                                     *)
(***************************************************************************)
\* while (!kthread_should_stop() && !should_stop) { check_count++; ...
LoopCheck ==
    /\ power = "on"
    /\ pc = 370
    /\ IF kthread_stop_flag \/ should_stop
       THEN /\ pc' = 457
            /\ UNCHANGED check_count
       ELSE /\ check_count < MaxPolls
            /\ check_count' = check_count + 1
            /\ pc' = 379
    /\ visited' = Visit(pc')
    /\ UNCHANGED <<envVars, modVars, sd_logging_enabled, ipc, xpc, locVars,
                   filp_ok, events>>

\* filp = filp_open(POWEROFF_SIGNAL_FILE, O_RDONLY, 0); if (!IS_ERR(filp)) ...
CheckSignal ==
    /\ power = "on"
    /\ pc = 379
    /\ IF SignalPresent(sigFile)
       THEN /\ events' = Append(events, Ev("detect", sigFile, 379, 0, 0))
            /\ pc' = 383
       ELSE /\ UNCHANGED events
            /\ pc' = 453
    /\ visited' = Visit(pc')
    /\ UNCHANGED <<envVars, modVars, sd_logging_enabled, check_count, ipc, xpc,
                   locVars, filp_ok>>

\* msleep(100) at the end of the loop body
Sleep ==
    /\ power = "on"
    /\ pc = 453
    /\ pc' = 370
    /\ visited' = Visit(pc')
    /\ UNCHANGED <<envVars, modVars, sd_logging_enabled, check_count, ipc, xpc,
                   locVars, filp_ok, events>>


(***************************************************************************)
(* monitor_thread_fn: the shutdown sequence                                *)
(***************************************************************************)
\* write_log(log_msg) of the "PowerOff Signal Received" banner
MonitorWriteLog ==
    /\ power = "on"
    /\ pc = 396
    /\ \E openOk \in BOOLEAN : filp_ok' = write_log_ok(sd_logging_enabled, filp_ok, openOk)
    /\ events' = events \o write_log(sd_logging_enabled, 396)
    /\ pc' = 397
    /\ visited' = Visit(pc')
    /\ UNCHANGED <<envVars, modVars, sd_logging_enabled, check_count, ipc, xpc,
                   locVars>>

\* call_usermodehelper(argv[0], argv, envp, UMH_WAIT_PROC) at one of its call
\* sites in kill_all_processes and unmount_filesystems
call_usermodehelper ==
    /\ power = "on"
    /\ pc \in HelperLines
    /\ \E r \in HelperRets : ret' = HelperRet(pc, ret, r)
    /\ \E s \in HelperEffect(HelperEntry(pc)[2], sdcard) : sdcard' = s
    /\ events' = Append(events, Ev("helper", HelperEntry(pc)[2], pc, 0, 0))
                 \o HelperWait(pc)
    /\ pc' = HelperEntry(pc)[3]
    /\ visited' = Visit(pc')
    /\ UNCHANGED <<power, sigFile, modVars, sd_logging_enabled, check_count, ipc,
                   xpc, retry, i, filp_ok>>

\* sd_logging_enabled = false;
DisableSdLogging_forgets ==
    /\ power = "on"
    /\ pc = 238
    /\ pc' = 242
    /\ visited' = Visit(pc')
    /\ UNCHANGED <<envVars, modVars, sd_logging_enabled, check_count, ipc, xpc,
                   locVars, filp_ok, events>>

DisableSdLogging ==
    /\ power = "on"
    /\ pc = 238
    /\ sd_logging_enabled' = FALSE
    /\ pc' = 242
    /\ visited' = Visit(pc')
    /\ UNCHANGED <<envVars, modVars, check_count, ipc, xpc, locVars, filp_ok,
                   events>>

\* for (retry = 0; ...
RetryInit ==
    /\ power = "on"
    /\ pc = 251
    /\ retry' = 0
    /\ pc' = 252
    /\ visited' = Visit(pc')
    /\ UNCHANGED <<envVars, modVars, sd_logging_enabled, check_count, ipc, xpc,
                   i, ret, filp_ok, events>>

\* ... retry < 3; ...
RetryTest_cancellable ==
    /\ power = "on"
    /\ pc = 252
    /\ pc' = IF retry < RetryLimit /\ ~should_stop THEN 257 ELSE 294
    /\ visited' = Visit(pc')
    /\ UNCHANGED <<envVars, modVars, sd_logging_enabled, check_count, ipc, xpc,
                   locVars, filp_ok, events>>

RetryTest ==
    /\ power = "on"
    /\ pc = 252
    /\ pc' = IF retry < RetryLimit THEN 257 ELSE 294
    /\ visited' = Visit(pc')
    /\ UNCHANGED <<envVars, modVars, sd_logging_enabled, check_count, ipc, xpc,
                   locVars, filp_ok, events>>

\* if (retry > 0) { fuser -km }
FuserTest_late ==
    /\ power = "on"
    /\ pc = 260
    /\ pc' = IF retry > 1 THEN 261 ELSE 268
    /\ visited' = Visit(pc')
    /\ UNCHANGED <<envVars, modVars, sd_logging_enabled, check_count, ipc, xpc,
                   locVars, filp_ok, events>>

FuserTest ==
    /\ power = "on"
    /\ pc = 260
    /\ pc' = IF retry > 0 THEN 261 ELSE 268
    /\ visited' = Visit(pc')
    /\ UNCHANGED <<envVars, modVars, sd_logging_enabled, check_count, ipc, xpc,
                   locVars, filp_ok, events>>

\* if (!is_sdcard_mounted()) { ...SUCCESS; break; }
LoopProbe ==
    /\ power = "on"
    /\ pc = 276
    /\ events' = Append(events, Ev("probe", "is_sdcard_mounted", 276, retry + 1,
                                   BoolInt(is_sdcard_mounted(sdcard))))
    /\ pc' = LoopProbeTarget(is_sdcard_mounted(sdcard))
    /\ visited' = Visit(pc')
    /\ UNCHANGED <<envVars, modVars, sd_logging_enabled, check_count, ipc, xpc,
                   locVars, filp_ok>>

\* if (retry < 2) { RETRY_SYNC; sync }
RetrySyncTest ==
    /\ power = "on"
    /\ pc = 283
    /\ pc' = IF retry < LastRetrySync THEN 286 ELSE 291
    /\ visited' = Visit(pc')
    /\ UNCHANGED <<envVars, modVars, sd_logging_enabled, check_count, ipc, xpc,
                   locVars, filp_ok, events>>

\* ... retry++)
RetryIncr ==
    /\ power = "on"
    /\ pc = 291
    /\ retry' = retry + 1
    /\ pc' = 252
    /\ visited' = Visit(pc')
    /\ UNCHANGED <<envVars, modVars, sd_logging_enabled, check_count, ipc, xpc,
                   i, ret, filp_ok, events>>

\* "Verify SD card is unmounted": if (is_sdcard_mounted()) emergency else ok
VerifyProbe ==
    /\ power = "on"
    /\ pc = 414
    /\ events' = Append(events, Ev("probe", "is_sdcard_mounted", 414, 0,
                                   BoolInt(is_sdcard_mounted(sdcard))))
    /\ pc' = VerifyTarget(is_sdcard_mounted(sdcard))
    /\ visited' = Visit(pc')
    /\ UNCHANGED <<envVars, modVars, sd_logging_enabled, check_count, ipc, xpc,
                   locVars, filp_ok>>

\* kernel_power_off() on the emergency path (422) and on the normal path
\* (442): the machine goes off, or the call returns
KernelPowerOff ==
    /\ power = "on"
    /\ pc \in {422, 442}
    /\ events' = Append(events, Ev("kernel_power_off", "kernel_power_off", pc, 0, 0))
    /\ \E returns \in BOOLEAN :
         IF returns
         THEN /\ pc' = IF pc = 422 THEN Halt(426) ELSE 445
              /\ UNCHANGED power
         ELSE /\ power' = "off"
              /\ UNCHANGED pc
    /\ visited' = Visit(pc')
    /\ UNCHANGED <<sigFile, sdcard, modVars, sd_logging_enabled, check_count, ipc,
                   xpc, locVars, filp_ok>>

(***************************************************************************)
(* execute_axp2202_poweroff                                                *)
(***************************************************************************)
\* for (i = 0x40; ...
Step1Init ==
    /\ power = "on"
    /\ pc = 314
    /\ i' = MaskFirst
    /\ pc' = 315
    /\ visited' = Visit(pc')
    /\ UNCHANGED <<envVars, modVars, sd_logging_enabled, check_count, ipc, xpc,
                   retry, ret, filp_ok, events>>

\* ... i <= 0x44; i++) { ret = axp2202_write_reg(i, 0x00); }
Step1Write ==
    /\ power = "on"
    /\ pc = 315
    /\ IF i <= MaskLast
       THEN /\ \E t \in TransferRets : ret' = axp2202_write_reg(i2c_adapter, t)
            /\ events' = events \o WriteRegEvents(i2c_adapter, 315, i, 0)
            /\ i' = i + 1
            /\ pc' = 315
       ELSE /\ pc' = 322
            /\ UNCHANGED <<i, ret, events>>
    /\ visited' = Visit(pc')
    /\ UNCHANGED <<envVars, modVars, sd_logging_enabled, check_count, ipc, xpc,
                   retry, filp_ok>>

\* for (i = 0x48; ...
Step2Init ==
    /\ power = "on"
    /\ pc = 323
    /\ i' = StatusFirst
    /\ pc' = 324
    /\ visited' = Visit(pc')
    /\ UNCHANGED <<envVars, modVars, sd_logging_enabled, check_count, ipc, xpc,
                   retry, ret, filp_ok, events>>

\* ... i <= 0x4C; i++) { ret = axp2202_write_reg(i, 0xFF); }
Step2Write ==
    /\ power = "on"
    /\ pc = 324
    /\ IF i <= StatusLast
       THEN /\ \E t \in TransferRets : ret' = axp2202_write_reg(i2c_adapter, t)
            /\ events' = events \o WriteRegEvents(i2c_adapter, 324, i, 255)
            /\ i' = i + 1
            /\ pc' = 324
       ELSE /\ pc' = 334
            /\ UNCHANGED <<i, ret, events>>
    /\ visited' = Visit(pc')
    /\ UNCHANGED <<envVars, modVars, sd_logging_enabled, check_count, ipc, xpc,
                   retry, filp_ok>>

\* axp2202_write_reg(0x22, 0x0A); the result is discarded
Step3Write ==
    /\ power = "on"
    /\ pc = 335
    /\ events' = events \o WriteRegEvents(i2c_adapter, 335, PWROFF_EN, PWROFF_EN_VALUE)
    /\ pc' = 341
    /\ visited' = Visit(pc')
    /\ UNCHANGED <<envVars, modVars, sd_logging_enabled, check_count, ipc, xpc,
                   locVars, filp_ok>>

\* ret = axp2202_write_reg(0x27, 0x01); a failure is only logged
Step4Write ==
    /\ power = "on"
    /\ pc = 342
    /\ \E t \in TransferRets : ret' = axp2202_write_reg(i2c_adapter, t)
    /\ events' = events \o WriteRegEvents(i2c_adapter, 342, SOFT_PWROFF, SOFT_PWROFF_VALUE)
    /\ pc' = 347
    /\ visited' = Visit(pc')
    /\ UNCHANGED <<envVars, modVars, sd_logging_enabled, check_count, ipc, xpc,
                   retry, i, filp_ok>>

(***************************************************************************)
(* Specifications                                                          *)
(***************************************************************************)
Monitor ==
    \/ LoopCheck \/ CheckSignal \/ Sleep
    \/ write_debug_marker \/ MonitorWriteLog \/ call_usermodehelper
    \/ DisableSdLogging \/ RetryInit \/ RetryTest \/ FuserTest \/ LoopProbe
    \/ RetrySyncTest \/ RetryIncr \/ VerifyProbe \/ KernelPowerOff
    \/ Step1Init \/ Step1Write \/ Step2Init \/ Step2Write \/ Step3Write
    \/ Step4Write

Next ==
    \/ InitGetAdapter \/ InitClearStale \/ InitWriteLog \/ InitAppendLog
    \/ InitStartThread
    \/ ExitStop \/ ExitKthreadStop \/ ExitJoin \/ ExitRelease
    \/ CreateRequest \/ EnvMountChange
    \/ Monitor

Spec == Init /\ [][Next]_vars

\* the kthread is scheduled, msleep() returns and every usermode helper exits
FairSpec == Spec /\ WF_vars(Monitor)

TypeOK ==
    /\ power \in {"on", "off"}
    /\ sigFile \in SigStates
    /\ sdcard \in SdStates
    /\ i2c_adapter \in {"NULL", "adapter"}
    /\ monitor_thread \in {"NULL", "task", "ERR"}
    /\ should_stop \in BOOLEAN
    /\ kthread_stop_flag \in BOOLEAN
    /\ sd_logging_enabled \in BOOLEAN
    /\ check_count \in 0..MaxPolls
    /\ retry \in 0..RetryLimit
    /\ filp_ok \in BOOLEAN


(***************************************************************************)
(* Properties                                                              *)
(***************************************************************************)
IsPrefix(s, t) == Len(s) <= Len(t) /\ \A n \in 1..Len(s) : s[n] = t[n]
Range(s) == {s[n] : n \in 1..Len(s)}
Occurrences(s, x) == Cardinality({n \in 1..Len(s) : s[n] = x})

WriteRegs == OfKind("write_reg")
Transfers == OfKind("i2c_transfer")
PowerOffs == OfKind("kernel_power_off")
Detects == OfKind("detect")
Umounts == Named("helper", "umount -f -l /mnt/SDCARD")
Kills == Named("helper", "killall5 -15") \o Named("helper", "killall5 -9")
LoopProbes == At("probe", 276)
VerifyProbes == At("probe", 414)
MarkerSeen(stage) == Named("marker", stage) # <<>>
WritePairs == [n \in 1..Len(WriteRegs) |-> <<WriteRegs[n].r, WriteRegs[n].v>>]

\* the fixed register program, as the specification states it
FixedTable == <<
    <<64, 0>>, <<65, 0>>, <<66, 0>>, <<67, 0>>, <<68, 0>>,
    <<72, 255>>, <<73, 255>>, <<74, 255>>, <<75, 255>>, <<76, 255>>,
    <<34, 10>>, <<39, 1>> >>

\* the retry loop of unmount_filesystems has been left
LoopDone == pc = 294 \/ MarkerSeen("UNMOUNT_FINAL_SYNC_START")
\* the monitor's verification after unmount_filesystems found the volume mounted
VerifiedStillMounted == VerifyProbes # <<>> /\ Last(VerifyProbes).v = 1
\* kernel_power_off() has been called and the thread is past the call
PastPowerOff == PowerOffs # <<>> /\ (power = "off" \/ pc \notin {422, 442})

\* C1: whenever the volume is found still mounted after unmount_filesystems,
\* the thread is on the emergency path, no axp2202_write_reg call and no
\* stage of the PMIC sequence has happened, and once past the terminal call
\* kernel_power_off was called exactly once, at the emergency call site; no
\* run enters both EmergencyPoweroff and Sequencing.
C1_EmergencyExcludesSequencing ==
    /\ VerifiedStillMounted =>
         /\ pc \in {417, 421, 422, 426}
         /\ WriteRegs = <<>>
         /\ Transfers = <<>>
         /\ ~MarkerSeen("PMIC_SEQUENCE_START")
         /\ PastPowerOff => (Len(PowerOffs) = 1 /\ PowerOffs[1].at = 422)
    /\ ~("EmergencyPoweroff" \in Range(visited) /\ "Sequencing" \in Range(visited))

C1_Witness ==
    /\ VerifiedStillMounted
    /\ Len(PowerOffs) = 1
    /\ pc = 426

\* C2: whatever each write returns, the (register, value) pairs passed to
\* axp2202_write_reg are always a prefix of the fixed table and, once the
\* trigger write has been made, exactly the fixed table; each call makes
\* one bus transfer of the same pair.
C2_FixedWriteSequence ==
    /\ IsPrefix(WritePairs, FixedTable)
    /\ (pc \in {347, 354, 437, 441, 442, 445, 447}) => WritePairs = FixedTable
    /\ Len(Transfers) = Len(WriteRegs)
    /\ \A n \in 1..Len(Transfers) :
         Transfers[n].r = WriteRegs[n].r /\ Transfers[n].v = WriteRegs[n].v

\* the sequence completed although the last write (the trigger) failed
C2_Witness ==
    /\ pc = 347
    /\ ret = -EIO
    /\ WritePairs = FixedTable

\* C3 (as claimed): a signal file left over from before init is never what
\* the monitor thread detects: every detection observes a request made after
\* init.
C3_StaleNeverTriggers ==
    \A n \in 1..Len(Detects) : Detects[n].a = "fresh"

\* C4 (as claimed): the branch the monitor takes is the outcome of the last
\* probe of the retry loop.
C4_BranchIsLoopProbe ==
    VerifyProbes # <<>> => Last(VerifyProbes).v = Last(LoopProbes).v

\* C4 (amended): the retry loop ends as still mounted iff its last probe
\* reported the volume mounted, and the monitor takes the emergency branch
\* iff its own probe, made after unmount_filesystems returned, reports the
\* volume mounted.
C4_BranchIsVerifyProbe ==
    /\ LoopDone =>
         /\ LoopProbes # <<>>
         /\ (Last(LoopProbes).v = 1) <=> ~MarkerSeen("UNMOUNT_SDCARD_SUCCESS")
         /\ (Last(LoopProbes).v = 1) <=>
              (Last(Named("marker", "UNMOUNT_SDCARD_STILL_MOUNTED")
                      \o Named("marker", "UNMOUNT_SDCARD_SUCCESS")).a
                 = "UNMOUNT_SDCARD_STILL_MOUNTED"
               /\ retry = RetryLimit)
    /\ VerifyProbes # <<>> =>
         /\ Len(VerifyProbes) = 1
         /\ (VerifyProbes[1].v = 1) <=> (pc \in {417, 421, 422, 426})
         /\ (VerifyProbes[1].v = 1) <=> ("EmergencyPoweroff" \in Range(visited))
         /\ (VerifyProbes[1].v = 0) <=> ("Sequencing" \in Range(visited))

\* the loop's last probe saw the volume mounted, the monitor's probe did not,
\* and the PMIC sequence ran
C4_Witness ==
    /\ LoopDone
    /\ Last(LoopProbes).v = 1
    /\ VerifyProbes # <<>>
    /\ VerifyProbes[1].v = 0
    /\ WritePairs = FixedTable

\* C5: the loop never issues more than 5 unmounts of /mnt/SDCARD, and when it
\* ends with the volume still mounted it has issued between 3 and 5.
C5_RetryBound ==
    /\ Len(Umounts) <= 5
    /\ Len(LoopProbes) <= Len(Umounts)
    /\ (LoopDone /\ Last(LoopProbes).v = 1) =>
         (Len(Umounts) >= 3 /\ Len(Umounts) <= 5 /\ Len(LoopProbes) = Len(Umounts))

C5_Witness ==
    /\ pc = 294
    /\ Last(LoopProbes).v = 1
    /\ Len(Umounts) = 3


\* every probe made so far, from the one after the first unmount attempt on,
\* reported the volume unmounted
UnmountsOnFirstAttempt ==
    /\ LoopProbes # <<>>
    /\ \A n \in 1..Len(LoopProbes) : LoopProbes[n].v = 0
    /\ \A n \in 1..Len(VerifyProbes) : VerifyProbes[n].v = 0

NormalPath ==
    <<"Idle", "Triggered", "ReapingProcesses", "Unwinding", "Sequencing", "Terminal">>

PmicStages ==
    <<"STEP1_MASK_INTERRUPTS", "STEP2_CLEAR_IRQ_STATUS", "STEP3_SHUTDOWN_SOURCES",
      "STEP4_TRIGGER_POWEROFF">>

\* C6: when the volume unmounts on attempt 1 (the probe after the first
\* unmount and the verification both report it unmounted), the states
\* entered are Idle, Triggered, ReapingProcesses, Unwinding, Sequencing,
\* Terminal in that order, one unmount was issued, and once past the terminal
\* call kernel_power_off was called exactly once, after all four steps of
\* the PMIC sequence were attempted with every write of the table.
C6_ScenarioA ==
    UnmountsOnFirstAttempt =>
        /\ IsPrefix(visited, NormalPath)
        /\ Len(Umounts) = 1
        /\ Len(PowerOffs) <= 1
        /\ PowerOffs # <<>> =>
             /\ visited = NormalPath
             /\ PowerOffs[1].at = 442
             /\ \A n \in 1..Len(PmicStages) : Len(Named("marker", PmicStages[n])) = 1
             /\ WritePairs = FixedTable
             /\ Len(Transfers) = Len(FixedTable)

C6_Witness ==
    /\ UnmountsOnFirstAttempt
    /\ PastPowerOff
    /\ visited = NormalPath

\* every probe made by the retry loop and by the monitor reported the volume
\* mounted, and the thread is past the terminal call
StaysMounted ==
    /\ \A n \in 1..Len(LoopProbes) : LoopProbes[n].v = 1
    /\ VerifiedStillMounted
    /\ PastPowerOff

\* C7 (as claimed): when the volume stays mounted, 5 unmounts were attempted
\* before the emergency branch, no PMIC write was issued and
\* kernel_power_off was called exactly once.
C7_ScenarioB ==
    StaysMounted =>
        /\ Len(Umounts) = 5
        /\ WriteRegs = <<>>
        /\ Len(PowerOffs) = 1
        /\ "Sequencing" \notin Range(visited)

\* C8: while /tmp/poweroff has been absent at every poll, the thread is in
\* Idle (or has exited on a stop request) and has made no bus write, no
\* helper call (process kill, unmount), no probe and no power-off call.
C8_IdleWhileAbsent ==
    sigFile = "absent" =>
        /\ pc \in {0, 370, 379, 453, 457}
        /\ Range(visited) \subseteq {"Idle", "Exited"}
        /\ \A n \in 1..Len(events) : events[n].k \in {"sdlog", "stale"}
        /\ Detects = <<>> /\ WriteRegs = <<>> /\ Transfers = <<>>
        /\ Kills = <<>> /\ Umounts = <<>> /\ PowerOffs = <<>>

\* the file was absent at each of MaxPolls polls
C8_Witness ==
    /\ sigFile = "absent"
    /\ check_count = MaxPolls
    /\ pc = 453

\* C9: the trigger is detected at most once, Triggered is entered at most
\* once, and each part of the shutdown sequence (kill_all_processes,
\* unmount_filesystems, the PMIC sequence) is started at most once.
C9_TriggeredOnce ==
    /\ Len(Detects) <= 1
    /\ Occurrences(visited, "Triggered") <= 1
    /\ Len(Named("helper", "killall5 -15")) <= 1
    /\ Len(Named("marker", "UNMOUNT_SYNC_START")) <= 1
    /\ Len(Named("marker", "PMIC_SEQUENCE_START")) <= 1
    /\ Len(PowerOffs) <= 1

\* kernel_power_off returned, and the file was created again after the
\* detection of an earlier one
C9_Witness ==
    /\ pc \in {426, 447}
    /\ Len(Detects) = 1
    /\ Detects[1].a # "fresh"
    /\ sigFile = "fresh"
    /\ check_count < MaxPolls

\* C10: once the trigger is detected, kernel_power_off is eventually called,
\* and the thread is never again in the polling loop and never returns from
\* monitor_thread_fn.
C10_ForwardOnly ==
    /\ (Detects # <<>>) ~> (PowerOffs # <<>>)
    /\ [](Detects # <<>> => pc \notin {0, 370, 379, 453, 457})

\* kernel_power_off was called on the emergency path after the last helper
\* (the final sync) failed and the last diagnostic open failed
C10_Witness ==
    /\ PowerOffs # <<>>
    /\ PowerOffs[1].at = 422
    /\ ret = 256
    /\ ~filp_ok

(***************************************************************************)
(* Terminal state and cancellation                                         *)
(***************************************************************************)
\* kernel_power_off() was called and came back to the monitor thread
Returned == power = "on" /\ PowerOffs # <<>> /\ pc \notin {422, 442}

\* what the shutdown sequence does to the system: helpers (kill, sync,
\* swapoff, fuser, umount), mount probes, bus writes and the power-off call
ActionKinds == {"helper", "probe", "write_reg", "i2c_transfer", "kernel_power_off"}
ActionEvents == SelectSeq(events, LAMBDA e : e.k \in ActionKinds)

\* C11: once kernel_power_off has returned, on either path, the monitor
\* thread is in Terminal and stays there: every later step leaves it in the
\* busy-wait (or at the AFTER_KERNEL_POWEROFF marker that precedes it on the
\* normal path), it is never again in the polling loop, never returns from
\* monitor_thread_fn, and no helper call, mount probe, bus write or
\* power-off call is added to what it has done.
C11_TerminalFailStop ==
    /\ [](Returned => /\ pc \in {426, 445, 447}
                      /\ Last(visited) = "Terminal"
                      /\ Len(PowerOffs) = 1)
    /\ [][Returned => /\ pc' \in {426, 445, 447}
                      /\ pc \in {426, 447} => pc' = pc
                      /\ ActionEvents' = ActionEvents
                      /\ visited' = visited]_vars

\* kernel_power_off returned on the emergency path, the thread is in the
\* busy-wait, and rmmod has since asked it to stop
C11_Witness ==
    /\ pc = 426
    /\ Returned
    /\ should_stop
    /\ kthread_stop_flag

\* the shutdown sequence as a list of step names: a helper by its command,
\* a probe, a register write and the power-off call by their kind
StepKinds == {"helper", "probe", "write_reg", "kernel_power_off"}
StepEvents == SelectSeq(events, LAMBDA e : e.k \in StepKinds)
StepName(e) == IF e.k = "helper" THEN e.a ELSE e.k
StepsStart(es, path) ==
    Len(es) <= Len(path) /\ \A n \in 1..Len(es) : StepName(es[n]) = path[n]
StepsAre(es, path) == Len(es) = Len(path) /\ StepsStart(es, path)

\* one attempt of the retry loop, as the specification states it: from the
\* second attempt on the holders of the volume are killed first; the volume
\* is unmounted and probed; a flush follows unless the attempt was the last
ExpectedAttempt(n, mounted) ==
    (IF n > 1 THEN <<"fuser -km /mnt/SDCARD">> ELSE <<>>)
    \o <<"umount -f -l /mnt/SDCARD", "probe">>
    \o (IF mounted = 1 /\ n < 3 THEN <<"sync">> ELSE <<>>)

\* attempts n, n+1, ... of at most 3, given the probe results lp seen so far
\* (a probe not made yet is taken as "mounted")
RECURSIVE ExpectedAttempts(_, _)
ExpectedAttempts(n, lp) ==
    IF n > 3 THEN <<>>
    ELSE LET mounted == IF n <= Len(lp) THEN lp[n] ELSE 1
         IN  ExpectedAttempt(n, mounted)
             \o (IF mounted = 0 THEN <<>> ELSE ExpectedAttempts(n + 1, lp))

\* the whole sequence of a run with no stop request, determined by the
\* results of the probes alone
ExpectedSteps ==
    <<"killall5 -15", "killall5 -9">>
    \o <<"sync", "swapoff -a", "umount -f /etc/profile", "sync">>
    \o ExpectedAttempts(1, [n \in 1..Len(LoopProbes) |-> LoopProbes[n].v])
    \o <<"sync", "probe">>
    \o (IF VerifiedStillMounted THEN <<>> ELSE [n \in 1..12 |-> "write_reg"])
    \o <<"kernel_power_off">>

\* C12: whatever rmmod does (should_stop set, kthread_stop called) and
\* whenever it does it, the steps taken after the detection are the steps of
\* a run with no stop request, in the same order: they are determined by the
\* probe results alone; the thread never goes back to the loop check or
\* returns, and with a stop request outstanding it still reaches
\* kernel_power_off.
C12_NonCancellable ==
    /\ [](StepsStart(StepEvents, ExpectedSteps))
    /\ [](PastPowerOff => StepsAre(StepEvents, ExpectedSteps))
    /\ []((Detects # <<>> /\ should_stop) => pc \notin {370, 453, 457})
    /\ (Detects # <<>> /\ should_stop) ~> (PowerOffs # <<>>)

\* rmmod has set should_stop and is waiting in kthread_stop, and the thread
\* has run the sequence through a failed first unmount attempt to the
\* power-off call of the normal path
C12_Witness ==
    /\ should_stop
    /\ kthread_stop_flag
    /\ xpc = 598
    /\ PastPowerOff
    /\ PowerOffs[1].at = 442
    /\ Len(LoopProbes) = 2

\* C13 (as claimed): when the thread has left monitor_thread_fn on a stop
\* request made while it was polling, no trigger was detected, it made no
\* helper call, probe, bus write or power-off call, and poweroff_hook_exit
\* is in kthread_stop or past it: the call completes.
C13_StopWhileIdle ==
    (pc = 457 /\ xpc # 0) =>
        /\ Detects = <<>>
        /\ ActionEvents = <<>>
        /\ xpc \in {597, 598, 602, 608}

(***************************************************************************)
(* Diagnostic markers                                                      *)
(***************************************************************************)
Markers == OfKind("marker")

\* the markers written inside unmount_filesystems
UnwinderMarkers ==
    {"UNMOUNT_SYNC_START", "UNMOUNT_SYNC_DONE", "UNMOUNT_SWAPOFF_START",
     "UNMOUNT_SWAPOFF_DONE", "UNMOUNT_PROFILE_START", "UNMOUNT_PROFILE_DONE",
     "UNMOUNT_DISABLE_SD_LOGGING", "UNMOUNT_SDCARD_PRE_SYNC",
     "UNMOUNT_SDCARD_PRE_SYNC_DONE", "UNMOUNT_SDCARD_START",
     "UNMOUNT_SDCARD_ATTEMPT_", "UNMOUNT_SDCARD_FUSER_KILL",
     "UNMOUNT_SDCARD_WAIT_START", "UNMOUNT_SDCARD_WAIT_DONE",
     "UNMOUNT_SDCARD_CHECK_START", "UNMOUNT_SDCARD_SUCCESS",
     "UNMOUNT_SDCARD_STILL_MOUNTED", "UNMOUNT_SDCARD_RETRY_SYNC",
     "UNMOUNT_FINAL_SYNC_START", "UNMOUNT_FINAL_SYNC_DONE"}

\* the stage of the state machine a marker names
MarkerStage(name) ==
    CASE name = "SIGNAL_DETECTED" -> "Triggered"
      [] name \in {"BEFORE_KILL_PROCESSES", "AFTER_KILL_PROCESSES"} -> "ReapingProcesses"
      [] name \in {"BEFORE_UNMOUNT", "AFTER_UNMOUNT"} \cup UnwinderMarkers -> "Unwinding"
      [] name = "SD_STILL_MOUNTED_EMERGENCY" -> "EmergencyPoweroff"
      [] name \in {"SD_UNMOUNTED_OK", "BEFORE_PMIC_SHUTDOWN", "PMIC_SEQUENCE_START",
                   "STEP1_MASK_INTERRUPTS", "STEP2_CLEAR_IRQ_STATUS",
                   "STEP3_SHUTDOWN_SOURCES", "STEP4_TRIGGER_POWEROFF",
                   "STEP4_COMPLETE", "PMIC_SEQUENCE_COMPLETE",
                   "AFTER_PMIC_SHUTDOWN"} -> "Sequencing"
      [] name \in {"EMERGENCY_KERNEL_POWEROFF", "BEFORE_KERNEL_POWEROFF",
                   "AFTER_KERNEL_POWEROFF"} -> "Terminal"
      [] OTHER -> "none"

\* position of a stage in the transition order; the two branches taken after
\* Unwinding share a position
StageRank(stage) ==
    CASE stage = "Triggered" -> 1
      [] stage = "ReapingProcesses" -> 2
      [] stage = "Unwinding" -> 3
      [] stage \in {"EmergencyPoweroff", "Sequencing"} -> 4
      [] stage = "Terminal" -> 5
      [] OTHER -> 0

\* the markers written outside unmount_filesystems, in the order of the
\* state machine, on the normal and on the emergency path
NormalMarkers ==
    <<"SIGNAL_DETECTED", "BEFORE_KILL_PROCESSES", "AFTER_KILL_PROCESSES",
      "BEFORE_UNMOUNT", "AFTER_UNMOUNT", "SD_UNMOUNTED_OK",
      "BEFORE_PMIC_SHUTDOWN", "PMIC_SEQUENCE_START", "STEP1_MASK_INTERRUPTS",
      "STEP2_CLEAR_IRQ_STATUS", "STEP3_SHUTDOWN_SOURCES",
      "STEP4_TRIGGER_POWEROFF", "STEP4_COMPLETE", "PMIC_SEQUENCE_COMPLETE",
      "AFTER_PMIC_SHUTDOWN", "BEFORE_KERNEL_POWEROFF", "AFTER_KERNEL_POWEROFF">>
EmergencyMarkers ==
    <<"SIGNAL_DETECTED", "BEFORE_KILL_PROCESSES", "AFTER_KILL_PROCESSES",
      "BEFORE_UNMOUNT", "AFTER_UNMOUNT", "SD_STILL_MOUNTED_EMERGENCY",
      "EMERGENCY_KERNEL_POWEROFF">>
\* the markers written outside unmount_filesystems, and whether the names
\* of a list of markers are an initial part of, or all of, a list of names
TransitionMarkers ==
    SelectSeq(events, LAMBDA e : e.k = "marker" /\ e.a \notin UnwinderMarkers)
NamesStart(ms, path) ==
    Len(ms) <= Len(path) /\ \A n \in 1..Len(ms) : ms[n].a = path[n]
NamesAre(ms, path) == Len(ms) = Len(path) /\ NamesStart(ms, path)

\* C14: in the list of markers written so far the stage named never goes
\* back in the transition order, the markers of unmount_filesystems form one
\* block that follows BEFORE_UNMOUNT and is followed by AFTER_UNMOUNT, and
\* the markers written outside it are an initial part of the normal path's
\* list or of the emergency path's list: a marker is never recorded before
\* the marker of its predecessor stage, and no run records markers of both
\* branches.
C14_MarkerOrder ==
    LET ms == Markers
        tm == TransitionMarkers
    IN  /\ \A n \in 1..(Len(ms) - 1) :
             /\ StageRank(MarkerStage(ms[n].a)) <= StageRank(MarkerStage(ms[n + 1].a))
             /\ ms[n + 1].a \in UnwinderMarkers =>
                  ms[n].a \in UnwinderMarkers \cup {"BEFORE_UNMOUNT"}
             /\ ms[n].a \in UnwinderMarkers =>
                  ms[n + 1].a \in UnwinderMarkers \cup {"AFTER_UNMOUNT"}
        /\ NamesStart(tm, NormalMarkers) \/ NamesStart(tm, EmergencyMarkers)

\* the normal path was recorded to its last marker, after a retry of the
\* unmount, and the file write of the last marker failed
C14_Witness ==
    /\ NamesAre(TransitionMarkers, NormalMarkers)
    /\ MarkerSeen("UNMOUNT_SDCARD_FUSER_KILL")
    /\ ~filp_ok

\* the marker that names the PMIC step a register belongs to
StepMarker(reg) ==
    CASE reg >= 64 /\ reg <= 71 -> "STEP1_MASK_INTERRUPTS"
      [] reg >= 72 /\ reg <= 79 -> "STEP2_CLEAR_IRQ_STATUS"
      [] reg = 34 -> "STEP3_SHUTDOWN_SOURCES"
      [] reg = 39 -> "STEP4_TRIGGER_POWEROFF"
      [] OTHER -> "none"

\* the marker that records the entry into a stage
EntryMarkers(stage) ==
    CASE stage = "ReapingProcesses" -> {"BEFORE_KILL_PROCESSES"}
      [] stage = "Unwinding" -> {"BEFORE_UNMOUNT"}
      [] stage = "Sequencing" -> {"BEFORE_PMIC_SHUTDOWN"}
      [] stage = "EmergencyPoweroff" -> {"SD_STILL_MOUNTED_EMERGENCY"}
      [] stage = "Terminal" -> {"BEFORE_KERNEL_POWEROFF", "EMERGENCY_KERNEL_POWEROFF"}
      [] OTHER -> {}

\* the stage a step of the sequence belongs to
StepStage(e) ==
    CASE e.k = "helper" /\ e.a \in {"killall5 -15", "killall5 -9"} -> "ReapingProcesses"
      [] e.k = "helper" /\ e.a \notin {"killall5 -15", "killall5 -9"} -> "Unwinding"
      [] e.k = "probe" -> "Unwinding"
      [] e.k = "write_reg" -> "Sequencing"
      [] e.k = "kernel_power_off" -> "Terminal"

\* step e was recorded before it was taken: last is the latest marker written
\* before it and seen is the set of all markers written before it
StepRecorded(e, last, seen) ==
    /\ MarkerStage(last) = StepStage(e)
    /\ EntryMarkers(StepStage(e)) \cap seen # {}
    /\ e.k = "write_reg" => last = StepMarker(e.r)
    /\ e.k = "kernel_power_off" => last \in EntryMarkers("Terminal")
    /\ (e.k = "kernel_power_off" /\ last = "EMERGENCY_KERNEL_POWEROFF") =>
         "SD_STILL_MOUNTED_EMERGENCY" \in seen

\* every step of es from position n on was recorded before it was taken
RECURSIVE AllRecorded(_, _, _, _)
AllRecorded(es, n, last, seen) ==
    IF n > Len(es) THEN TRUE
    ELSE IF es[n].k = "marker"
         THEN AllRecorded(es, n + 1, es[n].a, seen \cup {es[n].a})
         ELSE /\ es[n].k \in StepKinds => StepRecorded(es[n], last, seen)
              /\ AllRecorded(es, n + 1, last, seen)

\* positions at which the thread is about to take a step of the sequence
StepLines == HelperLines \cup {276, 414, 315, 324, 335, 342, 422, 442}

\* C15: every helper call, probe, register write and power-off call was
\* preceded by the marker of the entry into its stage, and the latest marker
\* written before it names its stage (for a register write: its PMIC step;
\* for the power-off call: the call itself).  Hence whenever the thread is
\* about to take such a step, or the machine has gone off, the last marker
\* written names the stage last entered.
C15_RecordBeforeAct ==
    /\ AllRecorded(events, 1, "none", {})
    /\ pc \in StepLines =>
          /\ Markers # <<>>
          /\ MarkerStage(Last(Markers).a) = OrchestratorState(pc)
    /\ power = "off" => Last(Markers).a \in EntryMarkers("Terminal")

\* the machine went off in kernel_power_off on the normal path; the last
\* marker written is BEFORE_KERNEL_POWEROFF
C15_Witness ==
    /\ power = "off"
    /\ Last(Markers).a = "BEFORE_KERNEL_POWEROFF"
    /\ Len(WriteRegs) = 12

(***************************************************************************)
(* PMIC registers                                                          *)
(***************************************************************************)
\* writes of register r: the axp2202_write_reg calls and the bus transfers
WritesOf(r) ==
    SelectSeq(events, LAMBDA e : e.k \in {"write_reg", "i2c_transfer"} /\ e.r = r)

\* C16: register 0x27 is written only by a step the monitor thread takes
\* while it is in Sequencing, after a detected trigger and after the
\* verification found the volume unmounted; it is written at most once (one
\* call, one transfer), with value 0x01.  No step of poweroff_hook_init or
\* poweroff_hook_exit writes a register, nothing is written before a trigger
\* is detected, and a run that enters EmergencyPoweroff never writes it.
C16_TriggerRegisterGuarded ==
    /\ [](WritesOf(39) # <<>> =>
            /\ Detects # <<>>
            /\ VerifyProbes # <<>> /\ Last(VerifyProbes).v = 0
            /\ MarkerSeen("STEP4_TRIGGER_POWEROFF")
            /\ "Sequencing" \in Range(visited)
            /\ "EmergencyPoweroff" \notin Range(visited)
            /\ Len(WritesOf(39)) <= 2
            /\ \A n \in 1..Len(WritesOf(39)) : WritesOf(39)[n].v = 1)
    /\ [](Detects = <<>> => WriteRegs = <<>> /\ Transfers = <<>>)
    /\ [][WritesOf(39)' # WritesOf(39) =>
            /\ OrchestratorState(pc) = "Sequencing"
            /\ Last(Markers).a = "STEP4_TRIGGER_POWEROFF"
            /\ ipc' = ipc /\ xpc' = xpc]_vars
    /\ [][(ipc' # ipc \/ xpc' # xpc) =>
            (WriteRegs' = WriteRegs /\ Transfers' = Transfers)]_vars

\* the write of 0x27 was issued and its transfer failed: the thread goes on
\* to STEP4_COMPLETE
C16_Witness ==
    /\ pc = 347
    /\ WritesOf(39) # <<>>
    /\ ret < 0

(***************************************************************************)
(* The user-space daemon (src/poweroff_daemon.c)                           *)
(*                                                                         *)
(* The daemon is a separate program that runs the older power-off          *)
(* sequence from a signal handler.  DaemonSpec describes it over the same  *)
(* variables: pc is the daemon's position (a line number of                *)
(* src/poweroff_daemon.c), should_stop stands for shutdown_requested,      *)
(* check_count for the local count of wait_for_sdcard_unmount, i for the   *)
(* loop variable of execute_poweroff_sequence, ipc holds one frame for     *)
(* each call of signal_handler in progress (innermost last), events is the *)
(* history.  The other variables keep their initial values.                *)
(***************************************************************************)
timeout == 30                \* int timeout = 30;
Signals == {"SIGTERM", "SIGINT", "SIGUSR1", "SIGPWR"}
daemonVars == <<sigFile, i2c_adapter, monitor_thread, kthread_stop_flag,
                sd_logging_enabled, xpc, retry, ret, filp_ok, visited>>

\* is_sdcard_unmounted: 1 if /proc/mounts cannot be opened or has no line
\* containing "/mnt/SDCARD"
is_sdcard_unmounted(s) ==
    IF s = "unresolved" THEN TRUE ELSE s \notin {"mounted", "stacked"}

\* i2c_write(fd, reg, val): one write(2) of two bytes; callers ignore the result
i2c_write(at, reg, val) == Ev("i2c_write", "i2c_write", at, reg, val)

\* the straight-line writes of execute_poweroff_sequence:
\* <<line, register, value, next line>>
DaemonWriteTable == <<
    <<125, 38, 0, 126>>,     \* 0x26
    <<126, 39, 0, 129>>,     \* 0x27
    <<129, 40, 0, 133>>,     \* 0x28
    <<133, 184, 0, 137>>,    \* 0xB8
    <<137, 53, 0, 141>>,     \* 0x35
    <<141, 34, 255, 145>>,   \* 0x22, 0xFF
    <<145, 35, 0, 146>>,     \* 0x23
    <<146, 36, 0, 150>>,     \* 0x24
    <<150, 16, 1, 153>>,     \* 0x10, 0x01
    <<153, 128, 0, 154>>,    \* 0x80
    <<154, 131, 0, 155>>,    \* 0x83
    <<155, 132, 0, 156>>,    \* 0x84
    <<156, 133, 0, 157>>,    \* 0x85
    <<157, 144, 0, 158>>,    \* 0x90
    <<158, 145, 0, 159>>,    \* 0x91
    <<159, 146, 0, 164>> >>  \* 0x92
DaemonWriteLines == {DaemonWriteTable[n][1] : n \in DOMAIN DaemonWriteTable}
DaemonWriteEntry(l) ==
    DaemonWriteTable[CHOOSE n \in DOMAIN DaemonWriteTable : DaemonWriteTable[n][1] = l]

\* what a call of signal_handler keeps on the stack: its parameter, and the
\* position and locals of the code it interrupted
Frame(signum, at, count, idx) ==
    [signum |-> signum, pc |-> at, count |-> count, i |-> idx]

\* the signal being handled
Signum == Last(ipc).signum

\* sigemptyset(&sa.sa_mask), no SA_NODEFER: while a handler runs only its own
\* signal is blocked
Blocked == {ipc[n].signum : n \in DOMAIN ipc}

\* the daemon sleeps in its main loop with the handlers installed
DaemonInit ==
    /\ power = "on"
    /\ sigFile = "absent"
    /\ sdcard \in SdStates
    /\ i2c_adapter = "NULL"
    /\ monitor_thread = "NULL"
    /\ should_stop = FALSE
    /\ kthread_stop_flag = FALSE
    /\ sd_logging_enabled = TRUE
    /\ check_count = 0
    /\ ipc = <<>>
    /\ xpc = 0
    /\ pc = 316
    /\ retry = 0
    /\ i = 0
    /\ ret = 0
    /\ filp_ok = TRUE
    /\ events = <<>>
    /\ visited = <<"Idle">>

\* int is_poweroff = 1; cleared if /proc/sys/kernel/poweroff_cmd contains
\* "reboot", cleared if /tmp/shutdown_type contains "reboot"
is_poweroff_cmdonly(cmdReboot, typeReboot) ==
    IF cmdReboot THEN FALSE ELSE TRUE
is_poweroff(cmdReboot, typeReboot) ==
    IF cmdReboot THEN FALSE ELSE IF typeReboot THEN FALSE ELSE TRUE

\* signal_handler(signum), up to the reboot test: shutdown_requested = 1;
\* if (!is_poweroff) return; else execute_poweroff_sequence().  The history
\* keeps whether one of the two files named a reboot (v = 0) or none (v = 1).
HandleSignal(signum) ==
    /\ power = "on"
    /\ signum \notin Blocked
    /\ \E cmdReboot \in BOOLEAN, typeReboot \in BOOLEAN :
         /\ events' = Append(events, Ev("signal", signum, 171, Len(ipc),
                                        BoolInt(~(cmdReboot \/ typeReboot))))
         /\ pc' = IF ~is_poweroff(cmdReboot, typeReboot) THEN 213 ELSE 217
    /\ ipc' = Append(ipc, Frame(signum, pc, check_count, i))
    /\ should_stop' = TRUE
    /\ UNCHANGED <<power, sdcard, check_count, i, daemonVars>>

\* a signal is delivered while main sleeps in its loop
signal_handler ==
    /\ pc = 316
    /\ Count("signal") = 0
    /\ \E signum \in Signals : HandleSignal(signum)

\* execute_poweroff_sequence() is entered; int count = 0;
DaemonEnterSequence ==
    /\ power = "on"
    /\ pc = 217
    /\ check_count' = 0
    /\ pc' = 77
    /\ events' = Append(events, Ev("execute", "execute_poweroff_sequence", 217,
                                   Len(ipc), 0))
    /\ UNCHANGED <<power, sdcard, should_stop, i, ipc, daemonVars>>

\* while (!is_sdcard_unmounted() && count < timeout) { sleep(1); count++; }
wait_for_sdcard_unmount_unbounded ==
    /\ power = "on"
    /\ pc = 77
    /\ IF ~is_sdcard_unmounted(sdcard)
       THEN /\ check_count' = check_count + 1
            /\ pc' = 77
       ELSE /\ pc' = 82
            /\ UNCHANGED check_count
    /\ UNCHANGED <<power, sdcard, should_stop, i, events, ipc, daemonVars>>

wait_for_sdcard_unmount ==
    /\ power = "on"
    /\ pc = 77
    /\ IF ~is_sdcard_unmounted(sdcard) /\ check_count < timeout
       THEN /\ check_count' = check_count + 1
            /\ pc' = 77
       ELSE /\ pc' = 82
            /\ UNCHANGED check_count
    /\ UNCHANGED <<power, sdcard, should_stop, i, events, ipc, daemonVars>>

\* if (is_sdcard_unmounted()) log success else log the warning; the sequence
\* goes on in both cases
DaemonWaitReport ==
    /\ power = "on"
    /\ pc = 82
    /\ events' = Append(events, Ev("wait", "is_sdcard_unmounted", 82, check_count,
                                   BoolInt(is_sdcard_unmounted(sdcard))))
    /\ pc' = 96
    /\ UNCHANGED <<power, sdcard, should_stop, check_count, i, ipc, daemonVars>>

\* sync() at lines 96, 167 and 221
DaemonSync ==
    /\ power = "on"
    /\ pc \in {96, 167, 221}
    /\ events' = Append(events, Ev("sync", "sync", pc, 0, 0))
    /\ pc' = CASE pc = 96 -> 99 [] pc = 167 -> 220 [] pc = 221 -> 222
    /\ UNCHANGED <<power, sdcard, should_stop, check_count, i, ipc, daemonVars>>

\* fd = open(I2C_BUS, O_RDWR); if (fd < 0) return;
DaemonOpenBus ==
    /\ power = "on"
    /\ pc = 99
    /\ \E opened \in BOOLEAN : pc' = IF opened THEN 106 ELSE 220
    /\ UNCHANGED <<power, sdcard, should_stop, check_count, i, events, ipc, daemonVars>>

\* if (ioctl(fd, I2C_SLAVE_FORCE, AXP_ADDR) < 0) { close(fd); return; }
DaemonSetSlave ==
    /\ power = "on"
    /\ pc = 106
    /\ \E ok \in BOOLEAN : pc' = IF ok THEN 115 ELSE 220
    /\ UNCHANGED <<power, sdcard, should_stop, check_count, i, events, ipc, daemonVars>>

\* for (int i = 0x40; ...   and   for (int i = 0x48; ...
DaemonLoopInit ==
    /\ power = "on"
    /\ pc \in {115, 120}
    /\ i' = IF pc = 115 THEN 64 ELSE 72
    /\ pc' = pc + 1
    /\ UNCHANGED <<power, sdcard, should_stop, check_count, events, ipc, daemonVars>>

\* ... i <= 0x47; i++) i2c_write(fd, i, 0x00);
\* ... i <= 0x4F; i++) i2c_write(fd, i, 0xFF);
DaemonLoopWrite ==
    /\ power = "on"
    /\ pc \in {116, 121}
    /\ IF i <= (IF pc = 116 THEN 71 ELSE 79)
       THEN /\ events' = Append(events, i2c_write(pc, i, IF pc = 116 THEN 0 ELSE 255))
            /\ i' = i + 1
            /\ pc' = pc
       ELSE /\ pc' = IF pc = 116 THEN 120 ELSE 125
            /\ UNCHANGED <<i, events>>
    /\ UNCHANGED <<power, sdcard, should_stop, check_count, ipc, daemonVars>>

\* one of the straight-line i2c_write calls of steps 3 to 10
DaemonWrite ==
    /\ power = "on"
    /\ pc \in DaemonWriteLines
    /\ events' = Append(events, i2c_write(pc, DaemonWriteEntry(pc)[2], DaemonWriteEntry(pc)[3]))
    /\ pc' = DaemonWriteEntry(pc)[4]
    /\ UNCHANGED <<power, sdcard, should_stop, check_count, i, ipc, daemonVars>>

\* close(fd);
DaemonClose ==
    /\ power = "on"
    /\ pc = 164
    /\ pc' = 167
    /\ UNCHANGED <<power, sdcard, should_stop, check_count, i, events, ipc, daemonVars>>

\* if (signum == SIGTERM || signum == SIGINT || signum == SIGPWR) { sync(); ...
DaemonFallbackTest ==
    /\ power = "on"
    /\ pc = 220
    /\ pc' = IF Signum \in {"SIGTERM", "SIGINT", "SIGPWR"} THEN 221 ELSE 224
    /\ UNCHANGED <<power, sdcard, should_stop, check_count, i, events, ipc, daemonVars>>

\* reboot(RB_POWER_OFF): the machine goes off, or the call fails and returns
DaemonReboot ==
    /\ power = "on"
    /\ pc = 222
    /\ events' = Append(events, Ev("reboot", "RB_POWER_OFF", 222, 0, 0))
    /\ \E fails \in BOOLEAN :
         IF fails THEN pc' = 224 /\ UNCHANGED power
         ELSE power' = "off" /\ UNCHANGED pc
    /\ UNCHANGED <<sdcard, should_stop, check_count, i, ipc, daemonVars>>

\* the handler returns (line 213 for a reboot, line 224 otherwise) to the
\* code it interrupted
DaemonHandlerReturn ==
    /\ power = "on"
    /\ pc \in {213, 224}
    /\ pc' = Last(ipc).pc
    /\ check_count' = Last(ipc).count
    /\ i' = Last(ipc).i
    /\ ipc' = SubSeq(ipc, 1, Len(ipc) - 1)
    /\ UNCHANGED <<power, sdcard, should_stop, events, daemonVars>>

\* main's loop: sleep(60) was interrupted, while (!shutdown_requested) is
\* false, main returns 0
DaemonMainExit ==
    /\ power = "on"
    /\ pc = 316
    /\ should_stop
    /\ pc' = 337
    /\ UNCHANGED <<power, sdcard, should_stop, check_count, i, events, ipc,
                   daemonVars>>

\* what /mnt/SDCARD is changes while the daemon runs
DaemonMountChange ==
    /\ power = "on"
    /\ \E s \in SdStates \ {sdcard} : sdcard' = s
    /\ UNCHANGED <<power, should_stop, check_count, i, pc, events, ipc,
                   daemonVars>>

DaemonSteps ==
    \/ signal_handler \/ DaemonEnterSequence \/ wait_for_sdcard_unmount
    \/ DaemonWaitReport \/ DaemonSync \/ DaemonOpenBus \/ DaemonSetSlave
    \/ DaemonLoopInit \/ DaemonLoopWrite \/ DaemonWrite \/ DaemonClose
    \/ DaemonFallbackTest \/ DaemonReboot \/ DaemonHandlerReturn
    \/ DaemonMainExit

DaemonNext == DaemonSteps \/ DaemonMountChange

\* one signal, delivered while main sleeps
DaemonSpec == DaemonInit /\ [][DaemonNext]_vars

\* the process is scheduled, sleep() returns and every system call completes
FairDaemonSpec == DaemonSpec /\ WF_vars(DaemonSteps)

\* signals delivered to the process in one behaviour of SignalSpec
MaxSignals == 2

\* a further signal is delivered at any point while the process exists:
\* inside a running handler, or in main before it has left its loop
SignalAgain ==
    /\ pc # 337
    /\ Count("signal") \in 1..(MaxSignals - 1)
    /\ \E signum \in Signals : HandleSignal(signum)

SignalNext == DaemonSteps \/ SignalAgain

\* several signals, delivered at any time; /mnt/SDCARD stays what it was
\* when the daemon started
SignalSpec == DaemonInit /\ [][SignalNext]_vars

\* the values that set only documented bits of register 0x22 (bits 0, 1, 3)
DocumentedBits == {0, 1, 2, 3, 8, 9, 10, 11}

\* C17 (as claimed): every write to register 0x22, by the kernel hook or by
\* the daemon, carries a subset of bits 0, 1 and 3, and never 0xFF.
C17_DocumentedBitsOnly ==
    \A n \in 1..Len(events) :
        (events[n].k \in {"write_reg", "i2c_transfer", "i2c_write"} /\ events[n].r = 34) =>
            (events[n].v \in DocumentedBits /\ events[n].v # 255)

(***************************************************************************)
(* axp2202_write_reg as a function of its inputs                           *)
(*                                                                         *)
(* FunctionSpec calls axp2202_write_reg with every combination of adapter  *)
(* state, register, value and i2c_transfer outcome, MaxCalls times.  Each  *)
(* call is recorded as the events of WriteRegEvents followed by a "return" *)
(* record: a is the value of i2c_adapter at the call, r the outcome of     *)
(* i2c_transfer (0 when no transfer was made) and v the value returned.    *)
(* check_count counts the calls.                                           *)
(***************************************************************************)
MaxCalls == 2
CallRegs == {PWROFF_EN, SOFT_PWROFF, MaskFirst}
CallValues == {0, 255}
\* i2c_transfer returns the number of messages transferred or a negative errno
CallTransferRets == {1, 0, 2, -121}

FunctionInit ==
    /\ power = "on"
    /\ sigFile = "absent"
    /\ sdcard = "mounted"
    /\ i2c_adapter \in {"NULL", "adapter"}
    /\ monitor_thread = "NULL"
    /\ should_stop = FALSE
    /\ kthread_stop_flag = FALSE
    /\ sd_logging_enabled = TRUE
    /\ check_count = 0
    /\ ipc = 0
    /\ xpc = 0
    /\ pc = 0
    /\ retry = 0
    /\ i = 0
    /\ ret = 0
    /\ filp_ok = TRUE
    /\ events = <<>>
    /\ visited = <<"Idle">>

\* one call ret = axp2202_write_reg(reg, value)
CallWriteReg ==
    /\ check_count < MaxCalls
    /\ check_count' = check_count + 1
    /\ \E reg \in CallRegs, value \in CallValues, t \in CallTransferRets :
         /\ ret' = axp2202_write_reg(i2c_adapter, t)
         /\ events' = events \o WriteRegEvents(i2c_adapter, 83, reg, value)
                      \o <<Ev("return", i2c_adapter, 83,
                              IF i2c_adapter = "NULL" THEN 0 ELSE t, ret')>>
    /\ UNCHANGED <<envVars, modVars, sd_logging_enabled, ipc, xpc, pc, retry, i,
                   filp_ok, visited>>

\* the handle is taken (i2c_get_adapter) or given back (i2c_put_adapter;
\* i2c_adapter = NULL) between two calls
CallAdapterChange ==
    /\ i2c_adapter' = IF i2c_adapter = "NULL" THEN "adapter" ELSE "NULL"
    /\ UNCHANGED <<envVars, monitor_thread, should_stop, kthread_stop_flag,
                   sd_logging_enabled, check_count, ipc, xpc, pc, locVars,
                   filp_ok, events, visited>>

FunctionNext == CallWriteReg \/ CallAdapterChange

FunctionSpec == FunctionInit /\ [][FunctionNext]_vars

\* C18: a call made while i2c_adapter is NULL makes no transfer and returns
\* a negative error (-ENODEV); a call made while a handle is held makes
\* exactly one transfer, of the register and value it was given, and returns
\* 0 if and only if that transfer reported exactly 1 message, a negative
\* error otherwise.  There are as many transfers as calls made with a handle.
C18_WriteRegContract ==
    /\ \A n \in 1..Len(events) :
         events[n].k = "return" =>
            IF events[n].a = "NULL"
            THEN /\ n >= 2
                 /\ events[n - 1].k = "write_reg"
                 /\ events[n].v = -ENODEV
                 /\ events[n].v < 0
            ELSE /\ n >= 3
                 /\ events[n - 1].k = "i2c_transfer"
                 /\ events[n - 2].k = "write_reg"
                 /\ events[n - 1].r = events[n - 2].r
                 /\ events[n - 1].v = events[n - 2].v
                 /\ events[n].v = 0 <=> events[n].r = 1
                 /\ events[n].v # 0 => events[n].v < 0
    /\ Len(Transfers) = Len(Named("return", "adapter"))
    /\ Len(WriteRegs) = Count("return")
    /\ ret <= 0

\* a call without a handle was followed by a call with a handle whose
\* transfer reported 0 messages: the second call returned -EIO
C18_Witness ==
    /\ Count("return") = 2
    /\ OfKind("return")[1].a = "NULL"
    /\ OfKind("return")[2].a = "adapter"
    /\ OfKind("return")[2].r = 0
    /\ OfKind("return")[2].v = -EIO

(***************************************************************************)
(* unmount_filesystems                                                     *)
(***************************************************************************)
\* the helpers run by unmount_filesystems, and these together with the
\* probes of its retry loop
UnwindHelpers ==
    SelectSeq(events, LAMBDA e : e.k = "helper" /\ e.a \notin {"killall5 -15", "killall5 -9"})
UnwindSteps ==
    SelectSeq(events, LAMBDA e :
        \/ e.k = "helper" /\ e.a \notin {"killall5 -15", "killall5 -9"}
        \/ e.k = "probe" /\ e.at = 276)
UnwindReturned == MarkerSeen("AFTER_UNMOUNT")

\* C19: the helpers of unmount_filesystems start with sync, swapoff -a,
\* umount -f /etc/profile, in this order and once each; the first unmount of
\* /mnt/SDCARD comes after them (and after one more sync); once
\* unmount_filesystems has returned, its last step is a sync that directly
\* follows the last probe of the retry loop, whether that probe found the
\* volume unmounted or the loop used up its attempts.  This holds for every
\* combination of helper results.
C19_UnwinderOrder ==
    LET hs == UnwindHelpers
        us == UnwindSteps
    IN  /\ Len(hs) >= 1 => hs[1].a = "sync"
        /\ Len(hs) >= 2 => hs[2].a = "swapoff -a"
        /\ Len(hs) >= 3 => hs[3].a = "umount -f /etc/profile"
        /\ Len(hs) >= 4 => hs[4].a = "sync"
        /\ Len(hs) >= 5 => hs[5].a = "umount -f -l /mnt/SDCARD"
        /\ \A n \in 4..Len(hs) : hs[n].a \notin {"swapoff -a", "umount -f /etc/profile"}
        /\ LoopProbes # <<>> => Len(hs) >= 5
        /\ UnwindReturned =>
             /\ Len(us) >= 7
             /\ Last(us).k = "helper" /\ Last(us).a = "sync"
             /\ us[Len(us) - 1].k = "probe"
             /\ us[Len(us) - 1].v = 0 \/ us[Len(us) - 1].r = 3

\* unmount_filesystems has returned after its loop broke on the second
\* attempt, and its final sync failed
C19_Witness ==
    /\ UnwindReturned
    /\ pc = 414
    /\ Len(LoopProbes) = 2
    /\ Last(LoopProbes).v = 0
    /\ ret = 256

\* the file operations of write_log on the SD-card log and the unmounts of
\* /mnt/SDCARD, in the order they happened
SdLogAndUmounts ==
    SelectSeq(events, LAMBDA e :
        \/ e.k = "sdlog"
        \/ e.k = "helper" /\ e.a = "umount -f -l /mnt/SDCARD")

\* C20: sd_logging_enabled never goes from false to true; it is false from
\* before the first umount of /mnt/SDCARD on; write_log opens the SD-card log
\* only while it is true (and does nothing when called with it false); every
\* file operation on the SD-card log precedes the first umount of
\* /mnt/SDCARD, and so does every step of poweroff_hook_init, which copies
\* the early log to the SD card without write_log.
C20_SdSinkDisabled ==
    /\ [][sd_logging_enabled' => sd_logging_enabled]_vars
    /\ [][Count("sdlog")' # Count("sdlog") => sd_logging_enabled]_vars
    /\ [](write_log(FALSE, pc) = <<>>)
    /\ [](Umounts # <<>> => ~sd_logging_enabled /\ ipc = 584)
    /\ [](pc = 268 => ~sd_logging_enabled)
    /\ [](LET su == SdLogAndUmounts
          IN  \A n \in 1..(Len(su) - 1) : su[n].k = "helper" => su[n + 1].k = "helper")

\* both write_log calls of the module opened the SD-card log, logging was
\* then disabled and the volume unmounted
C20_Witness ==
    /\ Count("sdlog") = 2
    /\ ~sd_logging_enabled
    /\ Len(Umounts) = 1
    /\ sdcard = "plain"

(***************************************************************************)
(* Diagnostics and control flow                                            *)
(***************************************************************************)
\* C21: the outcome of a diagnostic write (the open in write_log or in
\* write_debug_marker failing or succeeding) is never looked at: in every
\* run, whatever these outcomes were, the kills, unmounts, probes, register
\* writes and the power-off call made so far are the list that the probe
\* results alone determine, complete once kernel_power_off has been called,
\* and the diagnostic calls themselves are the same too (markers in the
\* order of one of the two paths, at most two write_log calls).
C21_DiagnosticsIgnored ==
    LET es == StepEvents
        tm == TransitionMarkers
    IN  /\ StepsStart(es, ExpectedSteps)
        /\ PowerOffs # <<>> => StepsAre(es, ExpectedSteps)
        /\ NamesStart(tm, NormalMarkers) \/ NamesStart(tm, EmergencyMarkers)
        /\ PowerOffs # <<>> =>
             \/ NamesStart(tm, NormalMarkers) /\ Len(tm) >= Len(NormalMarkers) - 1
             \/ NamesAre(tm, EmergencyMarkers)
        /\ Count("sdlog") <= 2

\* the normal path ran to the busy-wait and the diagnostic write made last
\* (the AFTER_KERNEL_POWEROFF marker) failed
C21_Witness ==
    /\ pc = 447
    /\ MarkerSeen("AFTER_KERNEL_POWEROFF")
    /\ ~filp_ok
    /\ Len(WriteRegs) = 12

(***************************************************************************)
(* kill_all_processes                                                      *)
(***************************************************************************)
\* what kill_all_processes has done: its broadcasts and its waits
KillSteps ==
    SelectSeq(events, LAMBDA e :
        \/ e.k = "helper" /\ e.a \in {"killall5 -15", "killall5 -9"}
        \/ e.k = "msleep" /\ e.at \in {192, 199})
KillProgram == <<"killall5 -15", 500, "killall5 -9", 200>>
KillStepIs(e, x) == IF e.k = "helper" THEN e.a = x ELSE e.v = x

\* C22: what kill_all_processes has done is always an initial part of:
\* killall5 -15, wait 500 ms, killall5 -9, wait 200 ms; once it has returned
\* all four were done, the forceful broadcast exactly once; and a call that
\* has started always returns (each helper is waited for and exits).
C22_TwoPhaseKill ==
    /\ [](LET ks == KillSteps
          IN  /\ Len(ks) <= Len(KillProgram)
              /\ \A n \in 1..Len(ks) : KillStepIs(ks[n], KillProgram[n]))
    /\ [](MarkerSeen("AFTER_KILL_PROCESSES") \/ pc = 406 =>
             /\ Len(KillSteps) = Len(KillProgram)
             /\ Len(Named("helper", "killall5 -9")) = 1
             /\ Len(Named("helper", "killall5 -15")) = 1)
    /\ (pc = 192) ~> (pc = 406)

\* kill_all_processes has returned
C22_Witness ==
    /\ pc = 406
    /\ Len(KillSteps) = 4
    /\ Len(Kills) = 2


\* ---------------------------------------------------------------------
\* C23 (as claimed): every call of is_sdcard_mounted reports "mounted"
\* exactly when /mnt/SDCARD resolves and a volume is mounted on it, and
\* reports "not mounted" when it is a plain directory or does not resolve.
\* kern_path() crosses the mount at the last component, so d_mountpoint()
\* is asked about the root of the mounted volume: with one volume mounted
\* on /mnt/SDCARD the probe reports "not mounted".
C23_MountedIffMountPoint ==
    [][Count("probe")' # Count("probe") =>
          (Last(OfKind("probe"))'.v = 1 <=> sdcard \in {"mounted", "stacked"})]_vars


(***************************************************************************)
(* The reboot-notifier module (poweroff-hook/src/poweroff_hook.c).         *)
(* pc is the position of the context that runs the notifier chain, ipc    *)
(* and xpc the positions of insmod and rmmod, i the index into log_paths,  *)
(* ret the local of try_write_log, check_count the number of callbacks    *)
(* the chain has made.                                                     *)
(***************************************************************************)
MaxNotifications == 2

SYS_RESTART == 1
SYS_HALT == 2
SYS_POWER_OFF == 3
NOTIFY_DONE == 0
RebootEvents == {SYS_RESTART, SYS_HALT, SYS_POWER_OFF}

\* log_paths[]: four paths, then NULL
log_paths == <<"/poweroff_log.txt", "/data/poweroff_log.txt",
               "/mnt/SDCARD/poweroff_log.txt", "/tmp/poweroff_log.txt">>

\* strlen(message) for the message try_write_log formats
MessageLen == 111
\* filp_open: 0 or PTR_ERR (-ENOENT, -EROFS)
OpenRets == {0, -2, -30}
\* vfs_write: everything, a short count, -ENOSPC
WrittenRets == {MessageLen, 40, -28}

notifierVars == <<envVars, modVars, sd_logging_enabled, retry, filp_ok,
                  visited>>

\* write_log_file: the value it returns for the outcomes of filp_open and
\* vfs_write
write_log_file(open, written, len) ==
    IF open # 0 THEN open
    ELSE IF written < 0 THEN written
    ELSE IF written # len THEN -EIO
    ELSE 0

\* if (event != SYS_POWER_OFF) return NOTIFY_DONE; else go on to try_write_log
NotifierTarget_inverted(event) == IF event = SYS_POWER_OFF THEN 141 ELSE 148
NotifierTarget(event) == IF event # SYS_POWER_OFF THEN 141 ELSE 148

\* the value returned at line 141 and at line 152
NotifierResult(line) == NOTIFY_DONE

NotifierInit ==
    /\ power = "on"
    /\ sigFile = "absent"
    /\ sdcard = "mounted"
    /\ i2c_adapter = "NULL"
    /\ monitor_thread = "NULL"
    /\ should_stop = FALSE
    /\ kthread_stop_flag = FALSE
    /\ sd_logging_enabled = TRUE
    /\ check_count = 0
    /\ ipc = 0
    /\ xpc = 0
    /\ pc = 0
    /\ retry = 0
    /\ i = 0
    /\ ret = 0
    /\ filp_ok = TRUE
    /\ events = <<>>
    /\ visited = <<"Idle">>

\* poweroff_hook_init: ret = register_reboot_notifier(&poweroff_notifier)
NotifierRegister ==
    /\ ipc = 0
    /\ \E r \in {0, -EIO} :
         /\ ipc' = IF r # 0 THEN 177 ELSE 185
         /\ events' = Append(events, Ev("register", "register_reboot_notifier",
                                        173, 0, r))
    /\ UNCHANGED <<notifierVars, should_stop, check_count, xpc, pc, i, ret>>

\* poweroff_hook_exit: unregister_reboot_notifier(&poweroff_notifier); the
\* chain's rwsem keeps it out while a callback runs
NotifierUnregister ==
    /\ ipc = 185
    /\ xpc = 0
    /\ pc = 0
    /\ xpc' = 198
    /\ events' = Append(events, Ev("unregister", "unregister_reboot_notifier",
                                   196, 0, 0))
    /\ UNCHANGED <<notifierVars, should_stop, check_count, ipc, pc, i, ret>>

\* the reboot notifier chain calls poweroff_notifier_callback(nb, event, data)
poweroff_notifier_callback ==
    /\ ipc = 185
    /\ xpc = 0
    /\ pc = 0
    /\ check_count < MaxNotifications
    /\ \E event \in RebootEvents :
         /\ events' = Append(events, Ev("notify", "poweroff_notifier_callback",
                                        134, check_count, event))
         /\ pc' = NotifierTarget(event)
    /\ check_count' = check_count + 1
    /\ UNCHANGED <<notifierVars, should_stop, ipc, xpc, i, ret>>

\* try_write_log(): int i, ret = -1; for (i = 0; ...
try_write_log ==
    /\ pc = 148
    /\ i' = 0
    /\ ret' = 0 - 1
    /\ pc' = 115
    /\ UNCHANGED <<notifierVars, should_stop, check_count, ipc, xpc, events>>

\* for (...; log_paths[i] != NULL; ...)
NotifierLoopTest ==
    /\ pc = 115
    /\ pc' = IF i < Len(log_paths) THEN 116 ELSE 127
    /\ UNCHANGED <<notifierVars, should_stop, check_count, ipc, xpc, i, ret,
                   events>>

\* ret = write_log_file(log_paths[i], message, strlen(message)); the history
\* keeps the path and whether the write succeeded
NotifierWriteLog ==
    /\ pc = 116
    /\ \E open \in OpenRets, written \in WrittenRets :
         /\ ret' = write_log_file(open, written, MessageLen)
         /\ events' = Append(events, Ev("log", log_paths[i + 1], 116, i,
                                        BoolInt(ret' = 0)))
    /\ pc' = 117
    /\ UNCHANGED <<notifierVars, should_stop, check_count, ipc, xpc, i>>

\* if (ret == 0) return 0; else i++
NotifierLoopResult ==
    /\ pc = 117
    /\ IF ret = 0
          THEN pc' = 120 /\ i' = i
          ELSE pc' = 115 /\ i' = i + 1
    /\ UNCHANGED <<notifierVars, should_stop, check_count, ipc, xpc, ret,
                   events>>

\* try_write_log returns (line 120 or 127); its value is discarded at 148
NotifierLogDone ==
    /\ pc \in {120, 127}
    /\ pc' = 152
    /\ UNCHANGED <<notifierVars, should_stop, check_count, ipc, xpc, i, ret,
                   events>>

\* return NOTIFY_DONE (line 141 or 152)
NotifierReturn ==
    /\ pc \in {141, 152}
    /\ events' = Append(events, Ev("return", "poweroff_notifier_callback", pc,
                                   check_count - 1, NotifierResult(pc)))
    /\ pc' = 0
    /\ UNCHANGED <<notifierVars, should_stop, check_count, ipc, xpc, i, ret>>

NotifierNext ==
    \/ NotifierRegister
    \/ NotifierUnregister
    \/ poweroff_notifier_callback
    \/ try_write_log
    \/ NotifierLoopTest
    \/ NotifierWriteLog
    \/ NotifierLoopResult
    \/ NotifierLogDone
    \/ NotifierReturn

NotifierSpec == NotifierInit /\ [][NotifierNext]_vars

\* ---------------------------------------------------------------------
\* C24: the notifier callback acts only on power-off.  A call with an event
\* other than SYS_POWER_OFF is followed directly by its return: no log file
\* is written and the locals of the log writer are untouched.  A call with
\* SYS_POWER_OFF is followed by a log write to the first path, and a log
\* write happens only inside such a call.  Every return carries NOTIFY_DONE.
C24_ActsOnlyOnPowerOff ==
    /\ \A n \in 1..Len(events) :
         /\ events[n].k = "return" => events[n].v = NOTIFY_DONE
         /\ events[n].k = "notify" /\ n < Len(events) =>
               IF events[n].v = SYS_POWER_OFF
                  THEN /\ events[n + 1].k = "log"
                       /\ events[n + 1].a = log_paths[1]
                  ELSE events[n + 1].k = "return"
         /\ events[n].k = "log" =>
               /\ n > 1
               /\ \/ events[n - 1].k = "log"
                  \/ /\ events[n - 1].k = "notify"
                     /\ events[n - 1].v = SYS_POWER_OFF
    /\ pc \in {148, 115, 116, 117, 120, 127, 152} =>
          Last(OfKind("notify")).v = SYS_POWER_OFF
    /\ pc = 141 => Last(OfKind("notify")).v # SYS_POWER_OFF

\* both kinds of call have been made and have returned: one that was
\* ignored and one that wrote the log
C24_Witness ==
    /\ pc = 0
    /\ Count("return") = 2
    /\ \E n \in 1..Len(events) :
          events[n].k = "notify" /\ events[n].v # SYS_POWER_OFF
    /\ \E n \in 1..Len(events) :
          events[n].k = "log" /\ events[n].v = 1


\* ---------------------------------------------------------------------
\* C30 (as claimed): in one lifetime of the daemon
\* execute_poweroff_sequence is entered at most once, whatever signals
\* arrive and whenever they arrive, a second, different signal during a
\* running handler included.
\* The handlers are installed with an empty sa_mask and signal_handler
\* tests nothing before it calls execute_poweroff_sequence, so a second
\* signal starts a second execution inside the first.
C30_SequenceAtMostOnce == Count("execute") <= 1


\* ---------------------------------------------------------------------
\* C25: when one of the two files names a reboot, signal_handler returns
\* without any part of the poweroff sequence: after such a signal the
\* daemon's history holds nothing but the signal (no wait, no sync, no I2C
\* write, no reboot(RB_POWER_OFF)) and the handler is at its return or has
\* returned.  The sequence, an I2C write or reboot(RB_POWER_OFF) occur only
\* after a signal for which no file named a reboot.
C25_RebootSkipsSequence ==
    LET sig == OfKind("signal")
    IN  /\ sig # <<>> /\ sig[1].v = 0 =>
              /\ Len(events) = 1
              /\ pc \in {213, 316, 337}
        /\ Count("execute") + Count("i2c_write") + Count("reboot") > 0 =>
              /\ sig # <<>>
              /\ sig[1].v = 1

\* a signal arrived with a reboot marker present, the handler has returned
\* and main has left its loop
C25_Witness ==
    /\ pc = 337
    /\ Count("signal") = 1
    /\ Last(OfKind("signal")).v = 0


\* ---------------------------------------------------------------------
\* C29: the daemon's wait for the unmount terminates and never stops the
\* sequence.  While the wait runs its count is at most timeout (30), so the
\* loop sleeps at most 30 times, and the report after the loop carries a
\* count of at most 30; is_sdcard_unmounted says "unmounted" when
\* /proc/mounts cannot be opened; the step out of the report goes to the
\* first statement of the bus sequence (the sync at line 96) whatever the
\* report says; and a wait that has started always gets there.
C29_WaitTerminates ==
    /\ [](pc \in {77, 82} => check_count \in 0..timeout)
    /\ [](LET ws == OfKind("wait")
          IN  \A n \in 1..Len(ws) : ws[n].r \in 0..timeout)
    /\ [](is_sdcard_unmounted("unresolved"))
    /\ [][pc = 82 /\ pc' # 82 => pc' = 96 /\ Count("wait")' = Count("wait") + 1]_vars
    /\ (pc = 77) ~> (pc = 96)

\* the wait ran out with the volume still mounted and the PMIC writes were
\* made all the same
C29_Witness ==
    /\ Count("wait") = 1
    /\ Last(OfKind("wait")).v = 0
    /\ Last(OfKind("wait")).r = timeout
    /\ Count("i2c_write") > 0


\* the retry loop in the history: the ATTEMPT marker that opens each pass
\* (line 257), the fuser kill (262), the umount (268), the probe (276) and
\* the retry sync (287)
AttemptSteps ==
    SelectSeq(events, LAMBDA e : \/ e.k = "marker" /\ e.at = 257
                                 \/ e.k = "helper" /\ e.at \in {262, 268})
ProbeSteps ==
    SelectSeq(events, LAMBDA e : \/ e.k = "helper" /\ e.at \in {262, 268, 287}
                                 \/ e.k = "probe" /\ e.at = 276)

\* ---------------------------------------------------------------------
\* C26: in the retry loop fuser -km /mnt/SDCARD is issued on every attempt
\* after the first and never on the first, and always before that
\* attempt's umount.  Of the loop's ATTEMPT markers, fuser calls and umount
\* calls: the first marker is attempt 1 and is followed by the umount; a
\* marker of a later attempt is followed by fuser, and fuser by the umount;
\* fuser and umount occur nowhere else.
C26_FuserAfterFirst ==
    LET ls == AttemptSteps
    IN  \A n \in 1..Len(ls) :
          /\ ls[n].at = 257 =>
                /\ ls[n].v = 1 + Len(SelectSeq(SubSeq(ls, 1, n - 1),
                                               LAMBDA e : e.at = 257))
                /\ n < Len(ls) =>
                      ls[n + 1].at = (IF ls[n].v > 1 THEN 262 ELSE 268)
          /\ ls[n].at = 262 =>
                /\ ls[n].a = "fuser -km /mnt/SDCARD"
                /\ n > 1 /\ ls[n - 1].at = 257 /\ ls[n - 1].v > 1
                /\ n < Len(ls) => ls[n + 1].at = 268
          /\ ls[n].at = 268 =>
                /\ ls[n].a = "umount -f -l /mnt/SDCARD"
                /\ n > 1
                /\ \/ ls[n - 1].at = 262
                   \/ ls[n - 1].at = 257 /\ ls[n - 1].v = 1

\* three attempts were made: one umount without fuser, two with
C26_Witness ==
    /\ Len(Umounts) = 3
    /\ Len(Named("helper", "fuser -km /mnt/SDCARD")) = 2

\* ---------------------------------------------------------------------
\* C27: the loop probes the mount state after every umount and stops at
\* the first probe that reports the volume unmounted.  Of the loop's fuser,
\* umount, probe and retry-sync steps: an umount is followed by a probe; a
\* probe that reports "unmounted" is the last of them for good; and when
\* such a probe exists it is the first one, its index among the probes is
\* the number of umounts made, and the loop has been left with success.
C27_StopAtFirstSuccess ==
    LET ps == ProbeSteps
        lp == LoopProbes
    IN  /\ \A n \in 1..Len(ps) :
              /\ ps[n].at = 268 /\ n < Len(ps) => ps[n + 1].at = 276
              /\ ps[n].at = 276 => n > 1 /\ ps[n - 1].at = 268
              /\ ps[n].at = 276 /\ ps[n].v = 0 => n = Len(ps)
        /\ \A n \in 1..Len(lp) :
              lp[n].v = 0 => /\ n = Len(lp)
                             /\ Len(Umounts) = n
                             /\ lp[n].r = n
        /\ pc = 278 => lp # <<>> /\ Last(lp).v = 0
        /\ pc \in {281, 283, 286, 287, 291} => lp # <<>> /\ Last(lp).v = 1

\* the first probe found the volume mounted, the second found it gone, and
\* the loop is over after two attempts
C27_Witness ==
    /\ LoopDone
    /\ Len(LoopProbes) = 2
    /\ LoopProbes[1].v = 1
    /\ LoopProbes[2].v = 0
    /\ Len(Umounts) = 2


\* the monitor thread has been started and its function has not returned
ThreadExists == pc # 0 /\ pc # 457

\* ---------------------------------------------------------------------
\* C28: no bus write is made on a released handle.  While the monitor
\* thread exists the module holds the adapter; the thread is started only
\* with the adapter held and the adapter is given up only when there is no
\* thread (it failed to start, or its function has returned); every call of
\* axp2202_write_reg is made from the thread's PMIC sequence (lines 315,
\* 324, 335, 342) and finds the adapter, so each one is passed to
\* i2c_transfer.
C28_HandleOutlivesThread ==
    /\ [](ThreadExists => i2c_adapter = "adapter")
    /\ [](\A n \in 1..Len(events) :
             events[n].k = "write_reg" => events[n].at \in {315, 324, 335, 342})
    /\ [](Count("i2c_transfer") = Count("write_reg"))
    /\ [][/\ pc = 0 /\ pc' # 0 => i2c_adapter = "adapter" /\ i2c_adapter' = "adapter"
          /\ i2c_adapter = "adapter" /\ i2c_adapter' = "NULL" => ~ThreadExists
          /\ Count("write_reg")' # Count("write_reg") =>
                ThreadExists /\ i2c_adapter = "adapter"]_vars

\* rmmod has stopped a thread that had been polling, waited for it to
\* return and then released the adapter
C28_Witness ==
    /\ xpc = 608
    /\ pc = 457
    /\ check_count > 0
    /\ monitor_thread = "NULL"
    /\ i2c_adapter = "NULL"

====
